---- MODULE Spec2Model ----
(***************************************************************************)
(* Konverge: the construct tree, the DependencyTracker registry with its   *)
(* graph algorithms, the Synthesizer's visitConstruct pipeline and the     *)
(* NamingStrategy, as state machines.                                      *)
(*                                                                         *)
(* A construct is identified by its index in `nodes` (creation order).     *)
(* Strings that the code inspects character by character (ids, paths,      *)
(* names) are sequences of one-character strings.                          *)
(***************************************************************************)
EXTENDS Integers, Sequences, FiniteSets, TLC

VARIABLES
  nodes,   \* the constructs created so far, in creation order
  deps,    \* DependencyTracker.dependencies: path -> list of edges
  last,    \* the last operation: its name, its input and what it returned
  schemas, \* SchemaValidator.schemas: key -> the schema registered under it
  rules,   \* Validator.builtInRules: the registered rules, in list order
  graph    \* a DependencyGraph: its nodes and its edges

vars == <<nodes, deps, last, schemas, rules, graph>>

----------------------------------------------------------------------------
(* Bounds of the model. *)

\* constructs the tracker specification creates
MaxNodes == 3
\* edges the tracker specification registers explicitly
MaxEdges == 3

\* ids the application gives its constructs in the tracker specification
Ids == {<<"a">>, <<"b">>}

\* DependencyType
DepTypes == {"creation-order", "runtime-reference", "configuration", "network", "custom"}

\* the one type the tracker specification registers edges with
\* (addDependency's default)
DefaultType == "creation-order"

----------------------------------------------------------------------------
(* Sequence helpers. *)

Range(s) == {s[i] : i \in DOMAIN s}

\* Array.indexOf: the first index of x in s, 0 when absent
IndexOf(s, x) ==
  IF \E i \in DOMAIN s : s[i] = x
  THEN CHOOSE i \in DOMAIN s : s[i] = x /\ \A j \in 1..(i - 1) : s[j] # x
  ELSE 0

RECURSIVE SeqsOver(_, _)
\* the sequences of pairwise distinct elements of S, of length at most n
SeqsOver(S, n) ==
  IF n = 0 THEN {<<>>}
  ELSE LET shorter == SeqsOver(S, n - 1)
       IN shorter \cup UNION {{Append(s, x) : x \in S \ Range(s)} : s \in shorter}

----------------------------------------------------------------------------
(* The construct tree (Construct, ConstructNode). *)

ResourceTypes == {"ConfigMap", "Deployment", "Service"}

NodeIds == DOMAIN nodes

\* construct instanceof KubernetesResource
IsResource(n) == nodes[n].type \in ResourceTypes

RECURSIVE PathIn(_, _)
\* ConstructNode.path, in the tree ns
PathIn(ns, n) ==
  IF ns[n].scope = 0 THEN ns[n].id
  ELSE PathIn(ns, ns[n].scope) \o <<"/">> \o ns[n].id

\* ConstructNode.path
Path(n) == PathIn(nodes, n)

\* ConstructNode.children: the children in the order they were added
Children(n) == SelectSeq([i \in NodeIds |-> i], LAMBDA c : nodes[c].scope = n)

\* children.find(child => child.constructor.name === type), 0 when undefined
FindChildOfType(n, type) ==
  LET found == SelectSeq(Children(n), LAMBDA c : nodes[c].type = type)
  IN IF found = <<>> THEN 0 ELSE found[1]

\* ConstructNode.addChild: the duplicate-id check
HasChildWithId(scope, id) ==
  \E c \in NodeIds : nodes[c].scope = scope /\ nodes[c].id = id

\* no error: the operation has returned
NoError == [kind |-> "none"]

\* the error of addChild: There is already a Construct with name '<id>' in
\* <owner>, the owner by its toString, that is its path
DuplicateId(scope, id) == [kind |-> "duplicate", id |-> id, owner |-> Path(scope)]

RECURSIVE GetAllConstructsInTree(_)
RECURSIVE ConcatSubtrees(_, _)
\* getAllConstructsInTree: the subtree in pre-order
GetAllConstructsInTree(root) == <<root>> \o ConcatSubtrees(Children(root), 1)
ConcatSubtrees(cs, i) ==
  IF i > Len(cs) THEN <<>>
  ELSE GetAllConstructsInTree(cs[i]) \o ConcatSubtrees(cs, i + 1)

\* a predicate given to findAll: none, or an arrow function that compares
\* the id of the construct
NoPredicate == [kind |-> "undefined"]
IdIs(id) == [kind |-> "idIs", id |-> id]
IdIsNot(id) == [kind |-> "idIsNot", id |-> id]

\* !predicate || predicate(construct)
Matches(predicate, n) ==
  CASE predicate.kind = "undefined" -> TRUE
    [] predicate.kind = "idIs" -> nodes[n].id = predicate.id
    [] predicate.kind = "idIsNot" -> nodes[n].id # predicate.id

RECURSIVE FindAll(_, _)
RECURSIVE FindAllBelow(_, _, _)

\* findAll that returns when the construct does not match
FindAllOfMatching(n, predicate) ==
  IF Matches(predicate, n)
  THEN <<n>> \o FindAllBelow(Children(n), 1, predicate)
  ELSE <<>>

\* ConstructNode.findAll(predicate)
FindAll(n, predicate) ==
  (IF Matches(predicate, n) THEN <<n>> ELSE <<>>)
    \o FindAllBelow(Children(n), 1, predicate)
FindAllBelow(cs, i, predicate) ==
  IF i > Len(cs) THEN <<>>
  ELSE FindAll(cs[i], predicate) \o FindAllBelow(cs, i + 1, predicate)

\* the path a construct with this scope and id has, in the tree ns
PathUnderIn(ns, scope, id) ==
  IF scope = 0 THEN id ELSE PathIn(ns, scope) \o <<"/">> \o id

RECURSIVE FindStackIn(_, _)
\* findParentStack of a construct with this scope, in the tree ns: the
\* nearest Stack above it, 0 when undefined
FindStackIn(ns, scope) ==
  IF scope = 0 THEN 0
  ELSE IF ns[scope].type = "Stack" THEN scope
  ELSE FindStackIn(ns, ns[scope].scope)

\* findParentStack(construct)
FindParentStack(n) == FindStackIn(nodes, nodes[n].scope)

\* the ids the framework itself gives to constructs
AppId == <<"A", "p", "p">>
ConfigId == <<"c", "o", "n", "f", "i", "g">>
DeploymentId == <<"d", "e", "p", "l", "o", "y", "m", "e", "n", "t">>
ServiceId == <<"s", "e", "r", "v", "i", "c", "e">>
SharedConfigId == <<"s", "h", "a", "r", "e", "d", "-", "c", "o", "n", "f", "i", "g">>
DatabaseId == <<"d", "a", "t", "a", "b", "a", "s", "e">>
WebId == <<"w", "e", "b">>

\* the fields of a construct that holds no reference to a child
NoParts == [part \in {} |-> 0]

\* a construct as the constructors leave it: type is constructor.name, name
\* is metadata.name (empty for a construct that is no resource), parts the
\* fields through which a composite refers to its children (0: undefined)
NewNode(scope, id, type, name, parts) ==
  [scope |-> scope, id |-> id, type |-> type, name |-> name, parts |-> parts]

----------------------------------------------------------------------------
(* Characters and strings. *)

LowerLetters == <<"a", "b", "c", "d", "e", "f", "g", "h", "i", "j", "k", "l", "m",
                  "n", "o", "p", "q", "r", "s", "t", "u", "v", "w", "x", "y", "z">>
UpperLetters == <<"A", "B", "C", "D", "E", "F", "G", "H", "I", "J", "K", "L", "M",
                  "N", "O", "P", "Q", "R", "S", "T", "U", "V", "W", "X", "Y", "Z">>
Digits == <<"0", "1", "2", "3", "4", "5", "6", "7", "8", "9">>

IsLower(c) == c \in Range(LowerLetters)
IsUpper(c) == c \in Range(UpperLetters)
IsDigit(c) == c \in Range(Digits)

\* String.toLowerCase, one character
LowerChar(c) == IF IsUpper(c) THEN LowerLetters[IndexOf(UpperLetters, c)] ELSE c

\* String.toLowerCase
ToLowerCase(str) == [i \in DOMAIN str |-> LowerChar(str[i])]

\* String.charCodeAt, for the characters the model uses
CharCode(c) ==
  IF IsLower(c) THEN 96 + IndexOf(LowerLetters, c)
  ELSE IF IsUpper(c) THEN 64 + IndexOf(UpperLetters, c)
  ELSE IF IsDigit(c) THEN 47 + IndexOf(Digits, c)
  ELSE IF c = "-" THEN 45
  ELSE IF c = "." THEN 46
  ELSE IF c = "/" THEN 47
  ELSE IF c = "_" THEN 95
  ELSE 32

\* String.replace(/c+/g, c): every run of the character c becomes one c (a c
\* that follows a c is dropped)
CollapseRuns(str, c) ==
  LET withPrevious == [i \in DOMAIN str |->
                         [char |-> str[i],
                          afterC |-> i > 1 /\ str[IF i > 1 THEN i - 1 ELSE 1] = c]]
      kept == SelectSeq(withPrevious, LAMBDA p : ~(p.char = c /\ p.afterC))
  IN [i \in DOMAIN kept |-> kept[i].char]

RECURSIVE StripLeading(_, _)
StripLeading(str, c) ==
  IF str # <<>> /\ Head(str) = c THEN StripLeading(Tail(str), c) ELSE str

RECURSIVE StripTrailing(_, _)
StripTrailing(str, c) ==
  IF str # <<>> /\ str[Len(str)] = c
  THEN StripTrailing(SubSeq(str, 1, Len(str) - 1), c)
  ELSE str

\* String.substring(0, n)
Substring0(str, n) ==
  IF n <= 0 THEN <<>> ELSE IF n >= Len(str) THEN str ELSE SubSeq(str, 1, n)

----------------------------------------------------------------------------
(* NamingStrategy. *)

DEFAULT_MAX_LENGTH == 63
DEFAULT_SEPARATOR == "-"

\* DNS_NAME_REGEX: /^[a-z0-9]([-a-z0-9]*[a-z0-9])?$/
MatchesDnsName(name) ==
  /\ name # <<>>
  /\ \A i \in DOMAIN name : IsLower(name[i]) \/ IsDigit(name[i]) \/ name[i] = "-"
  /\ name[1] # "-"
  /\ name[Len(name)] # "-"

\* NamingStrategy.buildBaseName: path.split('/').join(separator)
BuildBaseName(path, separator, preserveCase) ==
  LET joined == [i \in DOMAIN path |-> IF path[i] = "/" THEN separator ELSE path[i]]
  IN IF preserveCase THEN joined ELSE ToLowerCase(joined)

\* /[^a-z0-9-]/
NotNameChar(c) == ~(IsLower(c) \/ IsDigit(c) \/ c = "-")

\* NamingStrategy.sanitizeName
SanitizeName(name, separator) ==
  LET lowered == ToLowerCase(name)
      \* replace(/[^a-z0-9-]/g, separator)
      replaced == [i \in DOMAIN lowered |->
                     IF NotNameChar(lowered[i]) THEN separator ELSE lowered[i]]
      collapsed == CollapseRuns(replaced, separator)
      stripped == StripTrailing(StripLeading(collapsed, separator), separator)
  IN IF stripped = <<>> THEN <<"r", "e", "s", "o", "u", "r", "c", "e">>
     ELSE stripped

\* NamingStrategy.ensureValidDnsName
EnsureValidDnsName(name) ==
  IF MatchesDnsName(name) THEN name
  ELSE LET sanitized == SanitizeName(name, DEFAULT_SEPARATOR)
       IN IF MatchesDnsName(sanitized) THEN sanitized
          ELSE <<"r", "e", "s", "o", "u", "r", "c", "e", "-">> \o sanitized

\* the 32-bit hash as two 16-bit halves <<high, low>>
HashStep(h, code) ==
  LET low == 31 * h[2] + code
      high == 31 * h[1] + (low \div 65536)
  IN <<high % 65536, low % 65536>>

\* both halves of the hash are 16-bit values
IsHash(h) == h[1] \in 0..65535 /\ h[2] \in 0..65535

RECURSIVE HashLoop(_, _, _, _)
\* the loop of generateHash over input[from..to], entered with the hash h:
\* the characters of the first half, then those of the second half
HashLoop(input, from, to, h) ==
  IF from > to \/ ~IsHash(h) THEN h
  ELSE IF from = to THEN HashStep(h, CharCode(input[from]))
  ELSE HashLoop(input, ((from + to) \div 2) + 1, to,
                HashLoop(input, from, (from + to) \div 2, h))

Base36Digits == Digits \o LowerLetters

RECURSIVE ToBase36(_)
\* Number.toString(36) of a non-negative integer
ToBase36(n) ==
  IF n < 36 THEN <<Base36Digits[n + 1]>>
  ELSE ToBase36(n \div 36) \o <<Base36Digits[(n % 36) + 1]>>

\* NamingStrategy.generateHash: Math.abs(hash).toString(36).substring(0, 5)
GenerateHash(input) ==
  LET h == HashLoop(input, 1, Len(input), <<0, 0>>)
      \* the signed 32-bit value is negative when the top bit is set
      negative == h[1] >= 32768
      \* |-2^31| = 2^31 does not fit the checker's integers
      isMin == h[1] = 32768 /\ h[2] = 0
      magnitude == IF negative
                   THEN (65535 - h[1]) * 65536 + (65536 - h[2])
                   ELSE h[1] * 65536 + h[2]
  IN IF isMin THEN <<"z", "i", "k", "0", "z">>
     ELSE Substring0(ToBase36(magnitude), 5)

\* generateResourceName without the handling of the length constraint
GenerateNameOfPathUntruncated(path, maxLength, includeHash, separator, preserveCase) ==
  EnsureValidDnsName(SanitizeName(BuildBaseName(path, separator, preserveCase),
                                  separator))

\* NamingStrategy.generateResourceName for a construct with the given path
GenerateNameOfPath(path, maxLength, includeHash, separator, preserveCase) ==
  LET built == BuildBaseName(path, separator, preserveCase)
      sanitized == SanitizeName(built, separator)
      hash == GenerateHash(path)
      fitted == IF Len(sanitized) > maxLength
                THEN IF includeHash
                     THEN Substring0(sanitized, maxLength - Len(hash) - 1)
                            \o <<separator>> \o hash
                     ELSE Substring0(sanitized, maxLength)
                ELSE sanitized
  IN EnsureValidDnsName(fitted)

\* NamingStrategy.generateResourceName(construct) with the default options
GenerateResourceName(n) ==
  GenerateNameOfPath(Path(n), DEFAULT_MAX_LENGTH, TRUE, DEFAULT_SEPARATOR, FALSE)

RECURSIVE Decimal(_)
\* the decimal digits of a number, as a template literal writes it
Decimal(n) ==
  IF n < 10 THEN <<Digits[n + 1]>>
  ELSE Decimal(n \div 10) \o <<Digits[(n % 10) + 1]>>

\* `${baseName}-${counter}`
CandidateName(baseName, counter) == baseName \o <<"-">> \o Decimal(counter)

\* the names generateResourceName gives to the children of the scope of a
\* construct, the construct itself included
SiblingNamesWithSelf(n) ==
  {GenerateResourceName(sibling) : sibling \in Range(Children(nodes[n].scope))}

\* the names generateResourceName gives to the siblings of a construct
SiblingNames(n) ==
  {GenerateResourceName(sibling) : sibling \in Range(Children(nodes[n].scope)) \ {n}}

\* NamingStrategy.detectNameCollision, the names of the siblings given
DetectAmong(scope, siblingNames, proposedName) ==
  scope # 0 /\ proposedName \in siblingNames

\* NamingStrategy.detectNameCollision(construct, proposedName)
DetectNameCollision(n, proposedName) ==
  DetectAmong(nodes[n].scope, SiblingNames(n), proposedName)

\* the counter above which resolveNameCollision gives up
ResolveAttempts == 1000

\* the error of resolveNameCollision: Unable to resolve name collision for
\* construct <path> after 1000 attempts
Unresolved(path) == [kind |-> "unresolved", path |-> path]

\* the earlier of two outcomes of the loop: the first counter whose
\* candidate does not collide, 0 while every candidate has collided
FirstFree(earlier, later) == IF earlier # 0 THEN earlier ELSE later

RECURSIVE ResolveLoop(_, _, _, _, _)
\* the loop of resolveNameCollision over the counters from..to, in
\* increasing order: the first counter whose candidate does not collide, 0
\* if every candidate collides
ResolveLoop(scope, siblingNames, baseName, from, to) ==
  IF from = to
  THEN IF DetectAmong(scope, siblingNames, CandidateName(baseName, from))
       THEN 0 ELSE from
  ELSE FirstFree(
         ResolveLoop(scope, siblingNames, baseName, from, (from + to) \div 2),
         ResolveLoop(scope, siblingNames, baseName, (from + to) \div 2 + 1, to))

\* the outcome of resolveNameCollision: the candidate of the counter the
\* loop stopped at, the error when the counter went above 1000
ResolveOutcome(counter, baseName, path) ==
  IF counter = 0 THEN [thrown |-> Unresolved(path), name |-> <<>>]
  ELSE [thrown |-> NoError, name |-> CandidateName(baseName, counter)]

\* NamingStrategy.resolveNameCollision(construct, baseName): [thrown, name]
ResolveNameCollision(n, baseName) ==
  ResolveOutcome(ResolveLoop(nodes[n].scope, SiblingNames(n), baseName,
                             1, ResolveAttempts),
                 baseName, Path(n))

----------------------------------------------------------------------------
(* Metadata: namespaces, labels and annotations.  A namespace is a string, *)
(* empty when undefined; labels and annotations are functions from keys to *)
(* strings.                                                                *)

NoEntries == [key \in {} |-> <<>>]

\* Object.assign(target, source) and { ...target, ...source }
Assign(target, source) ==
  [key \in DOMAIN target \cup DOMAIN source |->
     IF key \in DOMAIN source THEN source[key] ELSE target[key]]

Konverge == <<"k", "o", "n", "v", "e", "r", "g", "e">>

\* metadata without namespace, labels and annotations
NoMetadata == [namespace |-> <<>>, labels |-> NoEntries, annotations |-> NoEntries]

\* /[^a-zA-Z0-9\-_.]/
NotLabelValueChar(c) ==
  ~(IsLower(c) \/ IsUpper(c) \/ IsDigit(c) \/ c \in {"-", "_", "."})

\* NamingStrategy.sanitizeLabelValue
SanitizeLabelValue(value) ==
  LET replaced == [i \in DOMAIN value |->
                     IF NotLabelValueChar(value[i]) THEN "-" ELSE value[i]]
      stripped == StripTrailing(StripLeading(CollapseRuns(replaced, "-"), "-"), "-")
  IN IF stripped = <<>> THEN <<"v", "a", "l", "u", "e">> ELSE stripped

\* generateLabels: the label construct-id for the sanitized path
ConstructIdLabel(sanitizedPath) ==
  IF Len(sanitizedPath) <= 63 THEN sanitizedPath
  ELSE Substring0(sanitizedPath, 60) \o <<".", ".", ".">>

\* generateLabels: the labels added for the stack the construct is within
WithStackLabels(ns, labels, stack) ==
  IF stack = 0 THEN labels
  ELSE Assign(Assign(labels, "konverge.io/stack-name" :> ns[stack].id),
              ns[stack].parts.labels)

\* NamingStrategy.generateLabels, for a construct with this scope and id
GenerateLabels(ns, scope, id) ==
  WithStackLabels(ns,
    ("app.kubernetes.io/name" :> id)
      @@ ("app.kubernetes.io/managed-by" :> Konverge)
      @@ ("konverge.io/construct-id" :>
            ConstructIdLabel(SanitizeLabelValue(PathUnderIn(ns, scope, id)))),
    FindStackIn(ns, scope))

\* generateAnnotations: the annotations added for the stack
WithStackAnnotations(ns, annotations, stack) ==
  IF stack = 0 THEN annotations
  ELSE Assign(Assign(annotations, "konverge.io/stack-name" :> ns[stack].id),
              IF ns[stack].parts.namespace # <<>>
              THEN "konverge.io/stack-namespace" :> ns[stack].parts.namespace
              ELSE NoEntries)

\* NamingStrategy.generateAnnotations, for a construct with this scope and id
GenerateAnnotations(ns, scope, id) ==
  WithStackAnnotations(ns, "konverge.io/construct-path" :> PathUnderIn(ns, scope, id),
                       FindStackIn(ns, scope))

\* the options of propagateMetadata when none is given
DefaultOptions ==
  [inheritNamespace |-> TRUE, inheritLabels |-> TRUE, addAnnotations |-> TRUE,
   additionalLabels |-> NoEntries, additionalAnnotations |-> NoEntries]

\* propagateMetadata: the namespace
PropagatedNamespace(ns, sourceStack, baseMetadata, options) ==
  IF /\ options.inheritNamespace
     /\ sourceStack # 0
     /\ ns[IF sourceStack # 0 THEN sourceStack ELSE 1].parts.namespace # <<>>
     /\ baseMetadata.namespace = <<>>
  THEN ns[sourceStack].parts.namespace
  ELSE baseMetadata.namespace

\* the merge of the labels that stops before the base metadata's labels
PropagatedLabelsIgnoringBase(automaticLabels, stackLabels, options, baseMetadata) ==
  Assign(Assign(automaticLabels, stackLabels), options.additionalLabels)

\* propagateMetadata: the labels, merged in the order automatic, stack,
\* additional, base
PropagatedLabels(automaticLabels, stackLabels, options, baseMetadata) ==
  Assign(Assign(Assign(automaticLabels, stackLabels), options.additionalLabels),
         baseMetadata.labels)

\* propagateMetadata: the labels of the stack, if they are inherited
InheritedLabels(ns, sourceStack, options) ==
  IF options.inheritLabels /\ sourceStack # 0
  THEN ns[sourceStack].parts.labels
  ELSE NoEntries

\* propagateMetadata: inheritedLabelsCount, Object.keys(stackLabels).length
InheritedLabelsCount(ns, sourceStack, options) ==
  Cardinality(DOMAIN InheritedLabels(ns, sourceStack, options))

\* propagateMetadata: the annotations
PropagatedAnnotations(ns, scope, id, baseMetadata, options) ==
  Assign(Assign(IF options.addAnnotations THEN GenerateAnnotations(ns, scope, id)
                ELSE NoEntries,
                options.additionalAnnotations),
         baseMetadata.annotations)

\* propagateMetadata, once the parent stack is found
PropagateFrom(ns, sourceStack, scope, id, baseMetadata, options) ==
  [name |-> baseMetadata.name,
   namespace |-> PropagatedNamespace(ns, sourceStack, baseMetadata, options),
   labels |-> PropagatedLabels(GenerateLabels(ns, scope, id),
                               InheritedLabels(ns, sourceStack, options),
                               options, baseMetadata),
   annotations |-> PropagatedAnnotations(ns, scope, id, baseMetadata, options)]

\* MetadataPropagation.propagateMetadata(construct, baseMetadata, options)
\* for a construct with this scope and id: the metadata of the result
PropagateMetadata(ns, scope, id, baseMetadata, options) ==
  PropagateFrom(ns, FindStackIn(ns, scope), scope, id, baseMetadata, options)

----------------------------------------------------------------------------
(* DependencyTracker: the registry. *)

NoDeps == [p \in {} |-> <<>>]

EdgeCount(d) ==
  LET RECURSIVE Sum(_)
      Sum(S) == IF S = {} THEN 0
                ELSE LET p == CHOOSE q \in S : TRUE
                     IN Len(d[p]) + Sum(S \ {p})
  IN Sum(DOMAIN d)

\* addDependency without the search for an existing edge: every call pushes
AddDependencyAlwaysPushes(ns, d, dependent, dependency, type) ==
  LET dependentId == PathIn(ns, dependent)
      existing == IF dependentId \in DOMAIN d THEN d[dependentId] ELSE <<>>
      edge == [dependent |-> dependent, dependency |-> dependency, type |-> type]
  IN [p \in DOMAIN d \cup {dependentId} |->
        IF p = dependentId THEN Append(existing, edge) ELSE d[p]]

\* DependencyTracker.addDependency on registry d, in the tree ns
AddDependencyIn(ns, d, dependent, dependency, type) ==
  LET dependentId == PathIn(ns, dependent)
      existing == IF dependentId \in DOMAIN d THEN d[dependentId] ELSE <<>>
      found == \E i \in DOMAIN existing :
                 /\ PathIn(ns, existing[i].dependency) = PathIn(ns, dependency)
                 /\ existing[i].type = type
      edge == [dependent |-> dependent, dependency |-> dependency, type |-> type]
      list == IF found THEN existing ELSE Append(existing, edge)
  IN [p \in DOMAIN d \cup {dependentId} |-> IF p = dependentId THEN list ELSE d[p]]

\* DependencyTracker.addDependency on registry d
AddDependencyTo(d, dependent, dependency, type) ==
  AddDependencyIn(nodes, d, dependent, dependency, type)

\* DependencyTracker.getDependencies
GetDependencies(d, c) == IF Path(c) \in DOMAIN d THEN d[Path(c)] ELSE <<>>

----------------------------------------------------------------------------
(* DependencyTracker.orderConstructs: the depth-first topological sort. *)

RECURSIVE OrderVisit(_, _, _, _)
RECURSIVE OrderVisitDeps(_, _, _, _, _)

\* visit as a pre-order emission: the construct is appended to the result
\* before its dependencies are visited
OrderVisitEmitsFirst(d, c, constructMap, st) ==
  IF st.thrown # <<>> THEN st
  ELSE LET p == Path(c) IN
    IF p \in st.visiting THEN [st EXCEPT !.thrown = p]
    ELSE IF p \in st.visited THEN st
    ELSE LET s1 == [st EXCEPT !.visiting = @ \cup {p}, !.result = Append(@, c)]
             s2 == OrderVisitDeps(d, GetDependencies(d, c), 1, constructMap, s1)
         IN IF s2.thrown # <<>> THEN s2
            ELSE [s2 EXCEPT !.visiting = @ \ {p}, !.visited = @ \cup {p}]

\* visit without the throw: a construct met again while still being visited
\* is skipped
OrderVisitSkipsRevisit(d, c, constructMap, st) ==
  LET p == Path(c) IN
    IF p \in st.visiting \/ p \in st.visited THEN st
    ELSE LET s1 == [st EXCEPT !.visiting = @ \cup {p}]
             s2 == OrderVisitDeps(d, GetDependencies(d, c), 1, constructMap, s1)
         IN [s2 EXCEPT !.visiting = @ \ {p},
                       !.visited = @ \cup {p},
                       !.result = Append(@, c)]

\* the inner function visit; st.thrown carries the path of the thrown error
OrderVisit(d, c, constructMap, st) ==
  IF st.thrown # <<>> THEN st
  ELSE LET p == Path(c) IN
    IF p \in st.visiting THEN [st EXCEPT !.thrown = p]
    ELSE IF p \in st.visited THEN st
    ELSE LET s1 == [st EXCEPT !.visiting = @ \cup {p}]
             s2 == OrderVisitDeps(d, GetDependencies(d, c), 1, constructMap, s1)
         IN IF s2.thrown # <<>> THEN s2
            ELSE [s2 EXCEPT !.visiting = @ \ {p},
                            !.visited = @ \cup {p},
                            !.result = Append(@, c)]
OrderVisitDeps(d, edges, i, constructMap, st) ==
  IF i > Len(edges) \/ st.thrown # <<>> THEN st
  ELSE LET s1 == IF Path(edges[i].dependency) \in constructMap
                 THEN OrderVisit(d, edges[i].dependency, constructMap, st)
                 ELSE st
       IN OrderVisitDeps(d, edges, i + 1, constructMap, s1)

RECURSIVE OrderLoop(_, _, _, _, _)
OrderLoop(d, constructs, i, constructMap, st) ==
  IF i > Len(constructs) \/ st.thrown # <<>> THEN st
  ELSE LET s1 == IF Path(constructs[i]) \notin st.visited
                 THEN OrderVisit(d, constructs[i], constructMap, st)
                 ELSE st
       IN OrderLoop(d, constructs, i + 1, constructMap, s1)

\* orderConstructs(constructs) on registry d: [thrown, result]
OrderConstructs(d, constructs) ==
  LET constructMap == {Path(constructs[i]) : i \in DOMAIN constructs}
      st0 == [visited |-> {}, visiting |-> {}, result |-> <<>>, thrown |-> <<>>]
      st == OrderLoop(d, constructs, 1, constructMap, st0)
  IN [thrown |-> st.thrown,
      result |-> IF st.thrown # <<>> THEN <<>> ELSE st.result]

----------------------------------------------------------------------------
(* DependencyTracker.detectCircularDependencies. *)

RECURSIVE DetectVisit(_, _, _, _)
RECURSIVE DetectVisitDeps(_, _, _, _, _)

\* visit marking a construct visited on entry, so that meeting it again
\* records nothing
DetectVisitMarksOnEntry(d, c, path, st) ==
  LET p == Path(c) IN
    IF p \in st.visited THEN st
    ELSE DetectVisitDeps(d, GetDependencies(d, c), 1, Append(path, p),
                         [st EXCEPT !.visited = @ \cup {p}])

\* the inner function visit(construct, path)
DetectVisit(d, c, path, st) ==
  LET p == Path(c) IN
    IF p \in st.visiting
    THEN LET cycleStart == IndexOf(path, p)
         IN IF cycleStart >= 1
            THEN [st EXCEPT !.circularPaths =
                    Append(@, SubSeq(path, cycleStart, Len(path)) \o <<p>>)]
            ELSE st
    ELSE IF p \in st.visited THEN st
    ELSE LET s1 == [st EXCEPT !.visiting = @ \cup {p}]
             s2 == DetectVisitDeps(d, GetDependencies(d, c), 1, Append(path, p), s1)
         IN [s2 EXCEPT !.visiting = @ \ {p}, !.visited = @ \cup {p}]
DetectVisitDeps(d, edges, i, newPath, st) ==
  IF i > Len(edges) THEN st
  ELSE DetectVisitDeps(d, edges, i + 1, newPath,
                       DetectVisit(d, edges[i].dependency, newPath, st))

RECURSIVE DetectLoop(_, _, _, _)
DetectLoop(d, constructs, i, st) ==
  IF i > Len(constructs) THEN st
  ELSE LET s1 == IF Path(constructs[i]) \notin st.visited
                 THEN DetectVisit(d, constructs[i], <<>>, st)
                 ELSE st
       IN DetectLoop(d, constructs, i + 1, s1)

\* detectCircularDependencies that visits the root only, not the constructs
\* below it
DetectCircularDependenciesOfRoot(d, root) ==
  DetectLoop(d, <<root>>, 1,
             [visited |-> {}, visiting |-> {}, circularPaths |-> <<>>]).circularPaths

\* detectCircularDependencies(rootConstruct) on registry d: the list of cycles
DetectCircularDependencies(d, root) ==
  DetectLoop(d, GetAllConstructsInTree(root), 1,
             [visited |-> {}, visiting |-> {}, circularPaths |-> <<>>]).circularPaths

----------------------------------------------------------------------------
(* DependencyTracker.autoDetectDependencies: the pattern table. *)

\* DependencyTracker.analyzeWebServiceDependencies
AnalyzeWebServiceDependencies(d, webService) ==
  LET configMapChild == FindChildOfType(webService, "ConfigMap")
  IN IF configMapChild # 0
     THEN AddDependencyTo(d, webService, configMapChild, "configuration")
     ELSE d

\* DependencyTracker.analyzeMicroserviceDependencies
AnalyzeMicroserviceDependencies(d, microservice) ==
  LET webServiceChild == FindChildOfType(microservice, "WebService")
      databaseChild == FindChildOfType(microservice, "Database")
      shared == SelectSeq(Children(microservice),
                          LAMBDA c : /\ nodes[c].type = "ConfigMap"
                                     /\ nodes[c].id = SharedConfigId)
      sharedConfigChild == IF shared = <<>> THEN 0 ELSE shared[1]
      d1 == IF webServiceChild # 0 /\ databaseChild # 0
            THEN AddDependencyTo(d, webServiceChild, databaseChild, "network")
            ELSE d
  IN IF webServiceChild # 0 /\ sharedConfigChild # 0
     THEN AddDependencyTo(d1, webServiceChild, sharedConfigChild, "configuration")
     ELSE d1

\* DependencyTracker.analyzeConstructDependencies: the switch on constructor.name
AnalyzeConstructDependencies(d, c) ==
  IF nodes[c].type = "WebService" THEN AnalyzeWebServiceDependencies(d, c)
  ELSE IF nodes[c].type = "Microservice" THEN AnalyzeMicroserviceDependencies(d, c)
  ELSE d

RECURSIVE AnalyzeLoop(_, _, _)
AnalyzeLoop(d, constructs, i) ==
  IF i > Len(constructs) THEN d
  ELSE AnalyzeLoop(AnalyzeConstructDependencies(d, constructs[i]), constructs, i + 1)

\* DependencyTracker.clear
Clear(d) == NoDeps

\* autoDetectDependencies without the call of clear(): the pattern edges are
\* added to what the registry holds
AutoDetectKeepsRegistry(d, constructs) ==
  AnalyzeLoop(d, constructs, 1)

\* DependencyTracker.autoDetectDependencies(constructs) on registry d
AutoDetectDependencies(d, constructs) ==
  AnalyzeLoop(Clear(d), constructs, 1)

\* getOrderedResources collecting only the resources directly under the
\* first construct
GetOrderedResourcesOfChildren(d, constructs) ==
  OrderConstructs(d, SelectSeq(constructs,
                               LAMBDA c : /\ IsResource(c)
                                          /\ nodes[c].scope = constructs[1]))

\* DependencyTracker.getOrderedResources: [thrown, result]
GetOrderedResources(d, constructs) ==
  LET resources == SelectSeq(constructs, IsResource)
      ordered == OrderConstructs(d, resources)
  IN [thrown |-> ordered.thrown,
      result |-> SelectSeq(ordered.result, IsResource)]

----------------------------------------------------------------------------
(* Validation of a resource.  A message is a tuple of its parts. *)

\* NamingStrategy.validateResourceName: the errors
ValidateResourceName(name) ==
  IF name = <<>> THEN <<"Name cannot be empty">>
  ELSE (IF Len(name) > 63 THEN <<"Name cannot exceed 63 characters">> ELSE <<>>)
    \o (IF ~MatchesDnsName(name)
        THEN <<"Name must be a valid DNS subdomain">> ELSE <<>>)
    \o (IF name[1] = "-" \/ name[Len(name)] = "-"
        THEN <<"Name cannot start or end with a hyphen">> ELSE <<>>)
    \o (IF \E i \in 1..(Len(name) - 1) : name[i] = "." /\ name[i + 1] = "."
        THEN <<"Name cannot contain consecutive periods">> ELSE <<>>)

\* MetadataPropagation.validateMetadata, for the name; the namespace and the
\* labels of the model's resources are valid
ValidateMetadata(name) ==
  IF name # <<>>
  THEN LET errors == ValidateResourceName(name)
       IN [i \in DOMAIN errors |-> <<"Name: ", errors[i]>>]
  ELSE <<>>

\* KubernetesResource.validate
ValidateBase(n) ==
  ValidateMetadata(nodes[n].name)
    \o (IF nodes[n].name = <<>> THEN << <<"Resource name is required">> >> ELSE <<>>)

\* resource.validate(): ConfigMap.validate adds its check of the data; the
\* model's Deployments and Services are built with a valid spec, to which
\* Deployment.validate and Service.validate add nothing
Validate(n) ==
  ValidateBase(n)
    \o (IF nodes[n].type = "ConfigMap" /\ nodes[n].parts.data = {}
        THEN << <<"ConfigMap must have at least one data or binaryData entry">> >>
        ELSE <<>>)

----------------------------------------------------------------------------
(* Synthesizer. *)

\* Error(`Validation failed for resource ${path}: ${errors.join(', ')}`)
ValidationFailed(path, messages) ==
  [kind |-> "validation", path |-> path, messages |-> messages]

\* Error(`Circular dependencies detected: ${cycles}`)
CircularDetected(cycles) == [kind |-> "circular", cycles |-> cycles]

\* Error(`Circular dependency detected involving construct: ${path}`)
CircularInvolving(path) == [kind |-> "circular-involving", path |-> path]

\* Error('Manifest must have ...')
ManifestInvalid(what) == [kind |-> "manifest", what |-> what]

ApiVersionOf(type) == IF type = "Deployment" THEN "apps/v1" ELSE "v1"

\* KubernetesResource.getCompleteMetadata
GetCompleteMetadata(n) ==
  PropagateMetadata(nodes, nodes[n].scope, nodes[n].id,
    [name |-> nodes[n].name,
     namespace |-> nodes[n].parts.metadata.namespace,
     labels |-> nodes[n].parts.metadata.labels,
     annotations |-> nodes[n].parts.metadata.annotations],
    [DefaultOptions EXCEPT !.additionalLabels = nodes[n].parts.given.labels,
                           !.additionalAnnotations = nodes[n].parts.given.annotations])

\* createBaseManifest: apiVersion, kind and the complete metadata
CreateBaseManifest(n, metadata) ==
  [apiVersion |-> ApiVersionOf(nodes[n].type),
   kind |-> nodes[n].type,
   name |-> metadata.name,
   namespace |-> metadata.namespace,
   labels |-> metadata.labels,
   annotations |-> metadata.annotations]

\* resource.toManifest(): the base manifest; the model leaves out the data
\* and the spec of the resource
ToManifest(n) == CreateBaseManifest(n, GetCompleteMetadata(n))

\* the value of the annotation construct-path of a manifest
ConstructPathOf(manifest) == manifest.annotations["konverge.io/construct-path"]

\* Synthesizer.validateManifest: the error thrown
ValidateManifest(manifest) ==
  IF manifest.apiVersion = "" THEN ManifestInvalid("apiVersion")
  ELSE IF manifest.kind = "" THEN ManifestInvalid("kind")
  ELSE IF manifest.name = <<>> THEN ManifestInvalid("name")
  ELSE NoError

\* new Date().toISOString() at the time of the synthesis
SynthesizedAt == <<"n", "o", "w">>

\* processManifest that keeps the annotations the manifest has
ProcessManifestKeepsAnnotations(manifest, n) ==
  [manifest EXCEPT !.annotations =
     Assign(("konverge.io/synthesized-at" :> SynthesizedAt)
              @@ ("konverge.io/construct-path" :> Path(n)), @)]

\* Synthesizer.processManifest: the two annotations of the synthesis
ProcessManifest(manifest, n) ==
  [manifest EXCEPT !.annotations =
     Assign(@, ("konverge.io/synthesized-at" :> SynthesizedAt)
                 @@ ("konverge.io/construct-path" :> Path(n)))]

\* generateManifest, after validate() has returned no error: toManifest,
\* processManifest and the error validateManifest throws
GenerateProcessed(manifest) ==
  [thrown |-> ValidateManifest(manifest), manifest |-> manifest]

\* generateManifest, after the call of validate()
GenerateValidated(n, validationErrors) ==
  IF Len(validationErrors) > 0
  THEN [thrown |-> ValidationFailed(Path(n), validationErrors), manifest |-> <<>>]
  ELSE GenerateProcessed(ProcessManifest(ToManifest(n), n))

\* generateManifest without the call of validate()
GenerateManifestUnvalidated(n) ==
  GenerateValidated(n, <<>>)

\* Synthesizer.generateManifest: [thrown, manifest]
GenerateManifest(n) ==
  GenerateValidated(n, Validate(n))

\* one turn of the loop of visitConstruct: generateManifest was called for
\* the resource n and returned g
Generated(acc, n, g) ==
  [thrown |-> g.thrown,
   manifests |-> IF g.thrown = NoError THEN Append(acc.manifests, g.manifest)
                 ELSE acc.manifests,
   validated |-> Append(acc.validated, n)]

RECURSIVE GenerateLoop(_, _, _)
\* the loop of visitConstruct over the ordered resources; acc.validated lists
\* the resources whose generateManifest has been called
GenerateLoop(resources, i, acc) ==
  IF i > Len(resources) \/ acc.thrown # NoError THEN acc
  ELSE GenerateLoop(resources, i + 1,
                    Generated(acc, resources[i], GenerateManifest(resources[i])))

\* what visitConstruct leaves when it throws: the registry and the error
VisitThrown(d, error) ==
  [deps |-> d, thrown |-> error, manifests |-> <<>>, order |-> <<>>,
   validated |-> <<>>]

\* visitConstruct, after the loop over the ordered resources
VisitGenerated(d, order, done) ==
  [deps |-> d, thrown |-> done.thrown,
   manifests |-> IF done.thrown = NoError THEN done.manifests ELSE <<>>,
   order |-> order, validated |-> done.validated]

\* visitConstruct, after getOrderedResources
VisitOrdered(d, ordered) ==
  IF ordered.thrown # <<>> THEN VisitThrown(d, CircularInvolving(ordered.thrown))
  ELSE VisitGenerated(d, ordered.result,
         GenerateLoop(ordered.result, 1,
                      [thrown |-> NoError, manifests |-> <<>>, validated |-> <<>>]))

\* visitConstruct, after detectCircularDependencies
VisitDetected(d, allConstructs, circularDeps) ==
  IF Len(circularDeps) > 0 THEN VisitThrown(d, CircularDetected(circularDeps))
  ELSE VisitOrdered(d, GetOrderedResources(d, allConstructs))

\* visitConstruct, after autoDetectDependencies has left the registry d
VisitAnalyzed(d, construct, allConstructs) ==
  VisitDetected(d, allConstructs, DetectCircularDependencies(d, construct))

\* visitConstruct, after getAllConstructsInTree
VisitCollected(d, construct, allConstructs) ==
  VisitAnalyzed(AutoDetectDependencies(d, allConstructs), construct, allConstructs)

\* Synthesizer.visitConstruct(construct) with registry d: the registry it
\* leaves, the error thrown, the manifests returned (none when it throws),
\* the order in which it takes the resources and those it has validated
VisitConstruct(d, construct) ==
  VisitCollected(d, construct, GetAllConstructsInTree(construct))

\* applyStackMetadata that sets the stack's namespace on every manifest
ApplyStackMetadataOverNamespace(manifest, stack) ==
  [manifest EXCEPT
     !.namespace = IF nodes[stack].parts.namespace # <<>>
                   THEN nodes[stack].parts.namespace ELSE @,
     !.labels = Assign(nodes[stack].parts.labels, @),
     !.annotations = Assign("konverge.io/stack-name" :> nodes[stack].id, @)]

\* Stack.applyStackMetadata: the namespace of the stack if the manifest has
\* none; the labels of the stack and the annotation stack-name under the
\* manifest's own
ApplyStackMetadata(manifest, stack) ==
  [manifest EXCEPT
     !.namespace = IF nodes[stack].parts.namespace # <<>> /\ @ = <<>>
                   THEN nodes[stack].parts.namespace ELSE @,
     !.labels = Assign(nodes[stack].parts.labels, @),
     !.annotations = Assign("konverge.io/stack-name" :> nodes[stack].id, @)]

\* Stack.synthesize, after visitConstruct
SynthesizeVisited(visited, stack) ==
  [visited EXCEPT !.manifests =
     [i \in DOMAIN @ |-> ApplyStackMetadata(@[i], stack)]]

\* Stack.synthesize() with registry d
Synthesize(d, stack) ==
  SynthesizeVisited(VisitConstruct(d, stack), stack)

----------------------------------------------------------------------------
(* The constructors of the resources and of the composite constructs, on a *)
(* world w = [nodes, deps].                                                *)

\* props without metadata.name and with the data entry k1
ValidProps == [hasName |-> FALSE, name |-> <<>>, metadata |-> NoMetadata, data |-> {"k1"}]

\* props = {}
EmptyProps == [hasName |-> FALSE, name |-> <<>>, metadata |-> NoMetadata, data |-> {}]

\* props with metadata.name '-' and no data
BadNameProps ==
  [hasName |-> TRUE, name |-> <<"-">>, metadata |-> NoMetadata, data |-> {}]

\* KubernetesResource constructor: { name: generateResourceName(this),
\* ...props.metadata }
ResourceNameIn(ns, scope, id, props) ==
  IF props.hasName THEN props.name
  ELSE GenerateNameOfPath(PathUnderIn(ns, scope, id),
                          DEFAULT_MAX_LENGTH, TRUE, DEFAULT_SEPARATOR, FALSE)

\* KubernetesResource constructor: this.metadata, propagated from the base
\* metadata { name, ...props.metadata }
ResourceMetadataIn(ns, scope, id, props) ==
  PropagateMetadata(ns, scope, id,
    [name |-> ResourceNameIn(ns, scope, id, props),
     namespace |-> props.metadata.namespace,
     labels |-> props.metadata.labels,
     annotations |-> props.metadata.annotations],
    DefaultOptions)

\* the fields of a resource: this.metadata (its name is kept as the name of
\* the construct), the metadata given in the props and, for a ConfigMap, the
\* keys of its data
ResourceParts(type, props, metadata) ==
  IF type = "ConfigMap"
  THEN [metadata |-> [namespace |-> metadata.namespace, labels |-> metadata.labels,
                      annotations |-> metadata.annotations],
        given |-> props.metadata, data |-> props.data]
  ELSE [metadata |-> [namespace |-> metadata.namespace, labels |-> metadata.labels,
                      annotations |-> metadata.annotations],
        given |-> props.metadata]

\* the construct a resource constructor leaves, with its metadata
ResourceNode(scope, id, type, props, metadata) ==
  NewNode(scope, id, type, metadata.name, ResourceParts(type, props, metadata))

\* new ConfigMap / Deployment / Service(scope, id, props) added to the tree ns
WithResource(ns, scope, id, type, props) ==
  Append(ns, ResourceNode(scope, id, type, props,
                          ResourceMetadataIn(ns, scope, id, props)))

\* super(scope, id) of a composite: its fields are still undefined
AddComposite(w, scope, id, type, parts) ==
  [w EXCEPT !.nodes = Append(@, NewNode(scope, id, type, <<>>, parts))]

\* this.field = new Type(this, id, props), in the constructor of owner
AddPart(w, owner, field, id, type, props) ==
  [w EXCEPT !.nodes = [WithResource(@, owner, id, type, props)
                         EXCEPT ![owner].parts[field] = Len(w.nodes) + 1]]

\* this.field = the composite that the constructor call leaving made has
\* created as the next construct after those of w
SetPart(w, made, owner, field) ==
  [made EXCEPT !.nodes[owner].parts[field] = Len(w.nodes) + 1]

\* tracker.addDependency(dependent, dependency, type) in the world w
Register(w, dependent, dependency, type) ==
  [w EXCEPT !.deps = AddDependencyIn(w.nodes, @, dependent, dependency, type)]

\* props of a ConfigMap with the given data
DataProps(data) ==
  [hasName |-> FALSE, name |-> <<>>, metadata |-> NoMetadata, data |-> data]

\* the fields of a WebService or a Database before its children exist
NoChildren == [configMap |-> 0, deployment |-> 0, service |-> 0]

\* WebService constructor: the ConfigMap, if config is provided
WebServiceConfig(w, self, config) ==
  IF config # {}
  THEN AddPart(w, self, "configMap", ConfigId, "ConfigMap", DataProps(config))
  ELSE w

\* WebService.registerDependencies and Database.registerDependencies
RegisterDependencies(w, self) ==
  Register(IF w.nodes[self].parts.configMap # 0
           THEN Register(w, w.nodes[self].parts.deployment,
                         w.nodes[self].parts.configMap, "configuration")
           ELSE w,
           w.nodes[self].parts.service, w.nodes[self].parts.deployment,
           "runtime-reference")

\* WebService constructor and Database constructor, after super(scope, id):
\* the ConfigMap if there is data for it, the Deployment, the Service, then
\* registerDependencies
ConstructChildren(w, self, config) ==
  RegisterDependencies(
    AddPart(
      AddPart(WebServiceConfig(w, self, config),
              self, "deployment", DeploymentId, "Deployment", EmptyProps),
      self, "service", ServiceId, "Service", EmptyProps),
    self)

\* new WebService(scope, id, props), props.config holding the keys config
ConstructWebService(w, scope, id, config) ==
  ConstructChildren(AddComposite(w, scope, id, "WebService", NoChildren),
                    Len(w.nodes) + 1, config)

\* new Database(scope, id, props): its ConfigMap always has data
ConstructDatabase(w, scope, id) ==
  ConstructChildren(AddComposite(w, scope, id, "Database", NoChildren),
                    Len(w.nodes) + 1, {"k1"})

\* Microservice constructor: the shared ConfigMap, if sharedConfig is provided
MicroserviceSharedConfig(w, self, sharedConfig) ==
  IF sharedConfig # {}
  THEN AddPart(w, self, "sharedConfig", SharedConfigId, "ConfigMap",
               DataProps(sharedConfig))
  ELSE w

\* Microservice constructor: the Database, if configured
MicroserviceDatabase(w, self, withDatabase) ==
  IF withDatabase
  THEN SetPart(w, ConstructDatabase(w, self, DatabaseId), self, "database")
  ELSE w

\* Microservice constructor: the WebService
MicroserviceWebService(w, self, webConfig) ==
  SetPart(w, ConstructWebService(w, self, WebId, webConfig), self, "webService")

\* Microservice.registerDependencies: the edges to the database
RegisterDatabase(w, self) ==
  IF w.nodes[self].parts.database # 0
  THEN Register(
         Register(w, w.nodes[self].parts.webService,
                  w.nodes[self].parts.database, "network"),
         w.nodes[w.nodes[self].parts.webService].parts.deployment,
         w.nodes[w.nodes[self].parts.database].parts.service, "network")
  ELSE w

\* Microservice.registerDependencies: the edges to the shared ConfigMap
RegisterSharedConfig(w, self) ==
  IF w.nodes[self].parts.sharedConfig # 0
  THEN Register(
         Register(w, w.nodes[self].parts.webService,
                  w.nodes[self].parts.sharedConfig, "configuration"),
         w.nodes[w.nodes[self].parts.webService].parts.deployment,
         w.nodes[self].parts.sharedConfig, "configuration")
  ELSE w

\* the fields of a Microservice before its children exist
NoComponents == [sharedConfig |-> 0, database |-> 0, webService |-> 0]

\* new Microservice(scope, id, props): props.sharedConfig holds the keys
\* sharedConfig, props.database is given or not, props.webService.config
\* holds the keys webConfig
ConstructMicroservice(w, scope, id, sharedConfig, withDatabase, webConfig) ==
  RegisterSharedConfig(
    RegisterDatabase(
      MicroserviceWebService(
        MicroserviceDatabase(
          MicroserviceSharedConfig(
            AddComposite(w, scope, id, "Microservice", NoComponents),
            Len(w.nodes) + 1, sharedConfig),
          Len(w.nodes) + 1, withDatabase),
        Len(w.nodes) + 1, webConfig),
      Len(w.nodes) + 1),
    Len(w.nodes) + 1)

\* addConfig and addSharedConfig: the ConfigMap is created if the field is
\* undefined
EnsureConfigMap(w, owner, field, id) ==
  IF w.nodes[owner].parts[field] = 0
  THEN AddPart(w, owner, field, id, "ConfigMap", EmptyProps)
  ELSE w

\* configMap.addData(key, value)
AddData(w, configMap, key) ==
  [w EXCEPT !.nodes[configMap].parts.data = @ \cup {key}]

\* addConfig and addSharedConfig: the edge from the deployment is registered
\* if the data holds exactly one key
RegisterFirstConfig(w, deployment, configMap) ==
  IF Cardinality(w.nodes[configMap].parts.data) = 1
  THEN Register(w, deployment, configMap, "configuration")
  ELSE w

\* addConfig and addSharedConfig, once the ConfigMap exists
AddToConfigMap(w, owner, field, deployment, key) ==
  RegisterFirstConfig(AddData(w, w.nodes[owner].parts[field], key),
                      deployment, w.nodes[owner].parts[field])

\* the body shared by WebService.addConfig and Microservice.addSharedConfig
AddConfigData(w, owner, field, id, deployment, key) ==
  AddToConfigMap(EnsureConfigMap(w, owner, field, id), owner, field, deployment, key)

----------------------------------------------------------------------------
(* SchemaValidator.  A value of a document is a record with its type: a    *)
(* string holds its characters, a number its tenths (15 is 1.5), an object *)
(* its entries in insertion order, an array its items.  A property schema   *)
(* is a record with the fields it defines, its properties a list of         *)
(* entries in insertion order.                                              *)

Undefined == [type |-> "undefined"]
Null == [type |-> "null"]
Str(chars) == [type |-> "string", chars |-> chars]
Num(tenths) == [type |-> "number", tenths |-> tenths]
Obj(entries) == [type |-> "object", entries |-> entries]
Arr(items) == [type |-> "array", items |-> items]

\* one property of an object, or of the properties of a schema
Entry(name, value) == [name |-> name, value |-> value]

\* name in obj
HasProperty(entries, name) == \E i \in DOMAIN entries : entries[i].name = name

\* obj[name]
Property(entries, name) ==
  IF HasProperty(entries, name)
  THEN entries[CHOOSE i \in DOMAIN entries : entries[i].name = name].value
  ELSE Undefined

\* value === undefined || value === null
IsNullish(value) == value.type \in {"undefined", "null"}

\* Number.isInteger
IsInteger(value) == value.tenths % 10 = 0

\* SchemaValidator.validateType
ValidateType(value, expectedType) ==
  CASE expectedType = "string" -> value.type = "string"
    [] expectedType = "number" -> value.type = "number"
    [] expectedType = "integer" -> value.type = "number" /\ IsInteger(value)
    [] expectedType = "boolean" -> value.type = "boolean"
    [] expectedType = "object" -> value.type = "object"
    [] expectedType = "array" -> value.type = "array"
    [] OTHER -> TRUE

\* a ValidationError: its code, its severity and its path, a list of
\* property names and indexes
Problem(code, severity, path) == [code |-> code, severity |-> severity, path |-> path]

\* `${path}.${propName}` and `${path}[${i}]`
PropertyPath(path, name) == Append(path, [property |-> name])
ItemPath(path, i) == Append(path, [index |-> i])

DnsPattern == "^[a-z0-9]([-a-z0-9]*[a-z0-9])?$"

\* new RegExp(pattern).test(str), for the pattern the schemas use
RegExpTest(pattern, chars) ==
  IF pattern = DnsPattern THEN MatchesDnsName(chars) ELSE TRUE

\* SchemaValidator.validateString
ValidateString(str, schema, path) ==
  IF "pattern" \in DOMAIN schema /\ ~RegExpTest(schema.pattern, str.chars)
  THEN <<Problem("PATTERN_MISMATCH", "error", path)>>
  ELSE <<>>

\* SchemaValidator.validateNumber
ValidateNumber(num, schema, path) ==
  (IF "minimum" \in DOMAIN schema /\ num.tenths < 10 * schema.minimum
   THEN <<Problem("VALUE_TOO_SMALL", "error", path)>> ELSE <<>>)
    \o (IF "maximum" \in DOMAIN schema /\ num.tenths > 10 * schema.maximum
        THEN <<Problem("VALUE_TOO_LARGE", "error", path)>> ELSE <<>>)
    \o (IF schema.type = "integer" /\ ~IsInteger(num)
        THEN <<Problem("NOT_INTEGER", "error", path)>> ELSE <<>>)

\* schema.enum && !schema.enum.includes(obj)
ValidateEnum(obj, schema, path) ==
  IF "enum" \in DOMAIN schema /\ ~(\E i \in DOMAIN schema.enum : schema.enum[i] = obj)
  THEN <<Problem("INVALID_ENUM_VALUE", "error", path)>>
  ELSE <<>>

\* the properties of an object that its schema does not declare, reported
\* as errors
UnknownPropertiesAsErrors(entries, declared, path) ==
  LET unknown == SelectSeq(entries, LAMBDA e : ~HasProperty(declared, e.name))
  IN [i \in DOMAIN unknown |->
        Problem("UNKNOWN_PROPERTY", "error", PropertyPath(path, unknown[i].name))]

\* validateObjectProperties: the check for unknown properties, in the
\* order of Object.keys(obj)
UnknownProperties(entries, declared, path) ==
  LET unknown == SelectSeq(entries, LAMBDA e : ~HasProperty(declared, e.name))
  IN [i \in DOMAIN unknown |->
        Problem("UNKNOWN_PROPERTY", "warning", PropertyPath(path, unknown[i].name))]

RECURSIVE ValidateObject(_, _, _)
RECURSIVE ValidateDeclared(_, _, _, _)
RECURSIVE ValidateItems(_, _, _, _)

\* validateObjectProperties: one property of the schema
ValidateProperty(propValue, propName, propSchema, path) ==
  IF "required" \in DOMAIN propSchema /\ propSchema.required /\ IsNullish(propValue)
  THEN <<Problem("MISSING_REQUIRED_PROPERTY", "error", PropertyPath(path, propName))>>
  ELSE IF ~IsNullish(propValue)
       THEN ValidateObject(propValue, propSchema, PropertyPath(path, propName))
       ELSE <<>>

\* validateObjectProperties: the properties of the schema from the i-th on
ValidateDeclared(entries, declared, i, path) ==
  IF i > Len(declared) THEN <<>>
  ELSE ValidateProperty(Property(entries, declared[i].name), declared[i].name,
                        declared[i].value, path)
         \o ValidateDeclared(entries, declared, i + 1, path)

\* SchemaValidator.validateObjectProperties
ValidateObjectProperties(obj, schema, path) ==
  IF "properties" \notin DOMAIN schema THEN <<>>
  ELSE ValidateDeclared(obj.entries, schema.properties, 1, path)
         \o UnknownProperties(obj.entries, schema.properties, path)

\* validateArrayItems: the items from the i-th on
ValidateItems(items, schema, i, path) ==
  IF i > Len(items) THEN <<>>
  ELSE ValidateObject(items[i], schema, ItemPath(path, i - 1))
         \o ValidateItems(items, schema, i + 1, path)

\* SchemaValidator.validateArrayItems
ValidateArrayItems(arr, schema, path) ==
  IF "items" \notin DOMAIN schema THEN <<>>
  ELSE ValidateItems(arr.items, schema.items, 1, path)

\* validateObject: the validation specific to the type of the schema
ValidateByType(obj, schema, path) ==
  CASE schema.type = "object" -> ValidateObjectProperties(obj, schema, path)
    [] schema.type = "array" -> ValidateArrayItems(obj, schema, path)
    [] schema.type = "string" -> ValidateString(obj, schema, path)
    [] schema.type \in {"number", "integer"} -> ValidateNumber(obj, schema, path)
    [] OTHER -> <<>>

\* SchemaValidator.validateObject: the problems it pushes
ValidateObject(obj, schema, path) ==
  IF IsNullish(obj) THEN <<>>
  ELSE IF ~ValidateType(obj, schema.type)
       THEN <<Problem("INVALID_TYPE", "error", path)>>
       ELSE ValidateByType(obj, schema, path) \o ValidateEnum(obj, schema, path)

\* validateManifest: the required top-level properties from the i-th on
RECURSIVE ValidateRequired(_, _, _, _)
ValidateRequired(entries, required, i, path) ==
  IF i > Len(required) THEN <<>>
  ELSE (IF ~HasProperty(entries, required[i])
        THEN <<Problem("MISSING_REQUIRED_PROPERTY", "error",
                       PropertyPath(path, required[i]))>>
        ELSE <<>>)
         \o ValidateRequired(entries, required, i + 1, path)

\* the result of a validation that has collected these problems
SchemaResult(errors) ==
  [isValid |-> SelectSeq(errors, LAMBDA e : e.severity = "error") = <<>>,
   errors |-> errors]

\* validateManifest against the schema found for the document
ValidateAgainst(manifest, schema, path) ==
  SchemaResult((IF "required" \in DOMAIN schema
                THEN ValidateRequired(manifest.entries, schema.required, 1, path)
                ELSE <<>>)
                 \o ValidateObject(manifest, schema.schema, path))

\* the characters of the API versions and kinds of the schemas
V1 == <<"v", "1">>
AppsV1 == <<"a", "p", "p", "s", "/", "v", "1">>
ConfigMapKind == <<"C", "o", "n", "f", "i", "g", "M", "a", "p">>
ServiceKind == <<"S", "e", "r", "v", "i", "c", "e">>
DeploymentKind == <<"D", "e", "p", "l", "o", "y", "m", "e", "n", "t">>
TestResourceKind == <<"T", "e", "s", "t", "R", "e", "s", "o", "u", "r", "c", "e">>

\* the schemas of metadata.name and metadata.namespace
NameSchema == [type |-> "string", required |-> TRUE, pattern |-> DnsPattern]
NamespaceSchema == [type |-> "string", pattern |-> DnsPattern]
MetadataSchema ==
  [type |-> "object", required |-> TRUE,
   properties |-> <<Entry("name", NameSchema), Entry("namespace", NamespaceSchema)>>]

\* the schema of a property that holds one of the given strings
OneOf(strings) ==
  [type |-> "string", enum |-> [i \in DOMAIN strings |-> Str(strings[i])]]

PortNumber == [type |-> "integer", minimum |-> 1, maximum |-> 65535]
Protocol == OneOf(<<<<"T", "C", "P">>, <<"U", "D", "P">>, <<"S", "C", "T", "P">>>>)

\* registerConfigMapSchema
ConfigMapSchema ==
  [apiVersion |-> V1, kind |-> ConfigMapKind,
   required |-> <<"apiVersion", "kind", "metadata">>,
   schema |->
     [type |-> "object",
      properties |-> <<Entry("apiVersion", OneOf(<<V1>>)),
                       Entry("kind", OneOf(<<ConfigMapKind>>)),
                       Entry("metadata", MetadataSchema),
                       Entry("data", [type |-> "object"])>>]]

\* registerServiceSchema
ServiceSchema ==
  [apiVersion |-> V1, kind |-> ServiceKind,
   required |-> <<"apiVersion", "kind", "metadata">>,
   schema |->
     [type |-> "object",
      properties |->
        <<Entry("apiVersion", OneOf(<<V1>>)),
          Entry("kind", OneOf(<<ServiceKind>>)),
          Entry("metadata", MetadataSchema),
          Entry("spec",
            [type |-> "object",
             properties |->
               <<Entry("selector", [type |-> "object"]),
                 Entry("ports",
                   [type |-> "array",
                    items |->
                      [type |-> "object",
                       properties |->
                         <<Entry("name", [type |-> "string"]),
                           Entry("port", [type |-> "integer", minimum |-> 1,
                                          maximum |-> 65535, required |-> TRUE]),
                           Entry("targetPort", PortNumber),
                           Entry("protocol", Protocol)>>]]),
                 Entry("type", OneOf(<<<<"C", "l", "u", "s", "t", "e", "r", "I", "P">>,
                                       <<"N", "o", "d", "e", "P", "o", "r", "t">>,
                                       <<"L", "o", "a", "d", "B", "a", "l", "a", "n", "c", "e", "r">>,
                                       <<"E", "x", "t", "e", "r", "n", "a", "l", "N", "a", "m", "e">>>>))>>])>>]]

\* registerDeploymentSchema
DeploymentSchema ==
  [apiVersion |-> AppsV1, kind |-> DeploymentKind,
   required |-> <<"apiVersion", "kind", "metadata", "spec">>,
   schema |->
     [type |-> "object",
      properties |->
        <<Entry("apiVersion", OneOf(<<AppsV1>>)),
          Entry("kind", OneOf(<<DeploymentKind>>)),
          Entry("metadata", MetadataSchema),
          Entry("spec",
            [type |-> "object", required |-> TRUE,
             properties |->
               <<Entry("replicas", [type |-> "integer", minimum |-> 0]),
                 Entry("selector",
                   [type |-> "object", required |-> TRUE,
                    properties |-> <<Entry("matchLabels", [type |-> "object"])>>]),
                 Entry("template",
                   [type |-> "object", required |-> TRUE,
                    properties |->
                      <<Entry("metadata",
                          [type |-> "object",
                           properties |-> <<Entry("labels", [type |-> "object"])>>]),
                        Entry("spec",
                          [type |-> "object",
                           properties |->
                             <<Entry("containers",
                                 [type |-> "array",
                                  items |->
                                    [type |-> "object",
                                     properties |->
                                       <<Entry("name", [type |-> "string",
                                                        required |-> TRUE]),
                                         Entry("image", [type |-> "string",
                                                         required |-> TRUE]),
                                         Entry("ports",
                                           [type |-> "array",
                                            items |->
                                              [type |-> "object",
                                               properties |->
                                                 <<Entry("containerPort", PortNumber),
                                                   Entry("protocol", Protocol)>>]])>>]])>>])>>])>>])>>]]

\* a schema a program registers: a resource with a required spec.name
TestResourceSchema ==
  [apiVersion |-> V1, kind |-> TestResourceKind,
   schema |->
     [type |-> "object",
      properties |->
        <<Entry("spec",
            [type |-> "object",
             properties |-> <<Entry("name", [type |-> "string",
                                             required |-> TRUE])>>])>>]]

\* a schema a program registers under the key of the former: any object
AnyTestResourceSchema ==
  [apiVersion |-> V1, kind |-> TestResourceKind, schema |-> [type |-> "object"]]

\* the schemas of the model, by the names the registry holds them under
SchemaNames == {"ConfigMap", "Service", "Deployment", "TestResource", "AnyTestResource"}
SchemaNamed(name) ==
  CASE name = "ConfigMap" -> ConfigMapSchema
    [] name = "Service" -> ServiceSchema
    [] name = "Deployment" -> DeploymentSchema
    [] name = "TestResource" -> TestResourceSchema
    [] name = "AnyTestResource" -> AnyTestResourceSchema

\* `${apiVersion}/${kind}`, as the pair it is made of: no kind holds a "/"
SchemaKey(apiVersion, kind) == <<apiVersion, kind>>

NoSchemas == [key \in {} |-> ""]

\* SchemaValidator.registerSchema: Map.set
RegisterSchema(registered, name) ==
  LET key == SchemaKey(SchemaNamed(name).apiVersion, SchemaNamed(name).kind)
  IN [k \in DOMAIN registered \cup {key} |-> IF k = key THEN name ELSE registered[k]]

\* SchemaValidator.registerBuiltInSchemas
RegisterBuiltInSchemas(registered) ==
  RegisterSchema(RegisterSchema(RegisterSchema(registered, "ConfigMap"), "Service"),
                 "Deployment")

\* the registry once the module is loaded
BuiltInSchemas == RegisterBuiltInSchemas(NoSchemas)

\* a property of a document, as a template literal writes it into the key
KeyPart(value) == IF value.type = "string" THEN value.chars ELSE <<"u", "n", "d", "e", "f", "i", "n", "e", "d">>

\* a lookup that finds a schema of the kind under any API version
GetSchemaOfKind(registered, apiVersion, kind) ==
  IF \E key \in DOMAIN registered : key[2] = kind
  THEN <<SchemaNamed(registered[CHOOSE key \in DOMAIN registered : key[2] = kind])>>
  ELSE <<>>

\* SchemaValidator.getSchema: the schema in a list, the empty list if
\* undefined
GetSchema(registered, apiVersion, kind) ==
  IF SchemaKey(apiVersion, kind) \in DOMAIN registered
  THEN <<SchemaNamed(registered[SchemaKey(apiVersion, kind)])>>
  ELSE <<>>

\* validateManifest, the schema looked up
ValidateWith(manifest, found, path) ==
  IF found = <<>> THEN [isValid |-> TRUE, errors |-> <<>>]
  ELSE ValidateAgainst(manifest, found[1], path)

\* SchemaValidator.validateManifest(manifest, path)
SchemaValidateManifest(registered, manifest, path) ==
  ValidateWith(manifest,
               GetSchema(registered,
                         KeyPart(Property(manifest.entries, "apiVersion")),
                         KeyPart(Property(manifest.entries, "kind"))),
               path)

\* the default path of validateManifest
ManifestPath == <<[property |-> "manifest"]>>

\* SchemaValidator.registerSchema(schema)
DoRegisterSchema(name) ==
  /\ schemas' = RegisterSchema(schemas, name)
  /\ last' = [op |-> "registerSchema", schema |-> name]
  /\ UNCHANGED <<nodes, deps, rules, graph>>

\* SchemaValidator.registerBuiltInSchemas()
DoRegisterBuiltInSchemas ==
  /\ schemas' = RegisterBuiltInSchemas(schemas)
  /\ last' = [op |-> "registerBuiltInSchemas"]
  /\ UNCHANGED <<nodes, deps, rules, graph>>

\* SchemaValidator.clearSchemas()
DoClearSchemas ==
  /\ schemas' = NoSchemas
  /\ last' = [op |-> "clearSchemas"]
  /\ UNCHANGED <<nodes, deps, rules, graph>>

\* SchemaValidator.validateManifest(manifest)
DoValidateManifest(manifest) ==
  /\ last' = [op |-> "validateManifest", manifest |-> manifest,
              result |-> SchemaValidateManifest(schemas, manifest, ManifestPath)]
  /\ UNCHANGED <<nodes, deps, schemas, rules, graph>>

----------------------------------------------------------------------------
(* DependencyGraph.  An id of the graph is a string; a manifest is held by *)
(* the node it was added for and the document given; the edges of an id    *)
(* are the elements of its Set, in insertion order.                        *)

NoGraphEdges == [id \in {} |-> <<>>]

\* new DependencyGraph()
NewDependencyGraph == [nodes |-> <<>>, edges |-> NoGraphEdges]

\* Map.keys() of the nodes, in insertion order
GraphNodeIds(g) == [i \in DOMAIN g.nodes |-> g.nodes[i].id]

\* this.nodes.has(id)
IsGraphNode(g, id) == \E i \in DOMAIN g.nodes : g.nodes[i].id = id

\* this.nodes.get(id): the manifest in a list, the empty list if undefined
GraphManifest(g, id) ==
  IF IsGraphNode(g, id)
  THEN <<g.nodes[CHOOSE i \in DOMAIN g.nodes : g.nodes[i].id = id].manifest>>
  ELSE <<>>

\* edges.has(id) or edges.set(id, new Set())
WithEdgeSet(edges, id) ==
  [k \in DOMAIN edges \cup {id} |-> IF k \in DOMAIN edges THEN edges[k] ELSE <<>>]

\* Set.add
SetAdd(elements, x) ==
  IF \E i \in DOMAIN elements : elements[i] = x THEN elements ELSE Append(elements, x)

\* DependencyGraph.addNode: Map.set keeps the place of a key it holds
AddNode(g, id, manifest) ==
  [nodes |-> IF IsGraphNode(g, id)
             THEN [i \in DOMAIN g.nodes |->
                     IF g.nodes[i].id = id THEN [id |-> id, manifest |-> manifest]
                     ELSE g.nodes[i]]
             ELSE Append(g.nodes, [id |-> id, manifest |-> manifest]),
   edges |-> WithEdgeSet(g.edges, id)]

\* DependencyGraph.addEdge
AddEdge(g, from, to) ==
  [g EXCEPT !.edges =
     [WithEdgeSet(WithEdgeSet(g.edges, from), to) EXCEPT ![from] = SetAdd(@, to)]]

\* Error(`Circular dependency detected involving resource: ${nodeId}`)
CircularResource(nodeId) == [kind |-> "circular-resource", id |-> nodeId]

RECURSIVE GraphVisit(_, _, _)
RECURSIVE GraphVisitEdges(_, _, _, _)

\* visit with result.push in the place of result.unshift
GraphVisitPushes(g, nodeId, st) ==
  IF st.thrown # NoError THEN st
  ELSE IF nodeId \in st.visiting THEN [st EXCEPT !.thrown = CircularResource(nodeId)]
  ELSE IF nodeId \in st.visited THEN st
  ELSE LET s1 == [st EXCEPT !.visiting = @ \cup {nodeId}]
           dependencies == IF nodeId \in DOMAIN g.edges THEN g.edges[nodeId] ELSE <<>>
           s2 == GraphVisitEdges(g, dependencies, 1, s1)
       IN IF s2.thrown # NoError THEN s2
          ELSE [s2 EXCEPT !.visiting = @ \ {nodeId},
                          !.visited = @ \cup {nodeId},
                          !.result = @ \o GraphManifest(g, nodeId)]

\* the inner function visit of topologicalSort; st.thrown carries the error
GraphVisit(g, nodeId, st) ==
  IF st.thrown # NoError THEN st
  ELSE IF nodeId \in st.visiting THEN [st EXCEPT !.thrown = CircularResource(nodeId)]
  ELSE IF nodeId \in st.visited THEN st
  ELSE LET s1 == [st EXCEPT !.visiting = @ \cup {nodeId}]
           dependencies == IF nodeId \in DOMAIN g.edges THEN g.edges[nodeId] ELSE <<>>
           s2 == GraphVisitEdges(g, dependencies, 1, s1)
       IN IF s2.thrown # NoError THEN s2
          ELSE [s2 EXCEPT !.visiting = @ \ {nodeId},
                          !.visited = @ \cup {nodeId},
                          !.result = GraphManifest(g, nodeId) \o @]
GraphVisitEdges(g, dependencies, i, st) ==
  IF i > Len(dependencies) \/ st.thrown # NoError THEN st
  ELSE GraphVisitEdges(g, dependencies, i + 1, GraphVisit(g, dependencies[i], st))

RECURSIVE GraphLoop(_, _, _, _)
\* the loop of topologicalSort over this.nodes.keys()
GraphLoop(g, ids, i, st) ==
  IF i > Len(ids) \/ st.thrown # NoError THEN st
  ELSE GraphLoop(g, ids, i + 1,
                 IF ids[i] \notin st.visited THEN GraphVisit(g, ids[i], st) ELSE st)

\* DependencyGraph.topologicalSort: [thrown, result]
TopologicalSort(g) ==
  LET st == GraphLoop(g, GraphNodeIds(g), 1,
                      [visited |-> {}, visiting |-> {}, result |-> <<>>,
                       thrown |-> NoError])
  IN [thrown |-> st.thrown,
      result |-> IF st.thrown # NoError THEN <<>> ELSE st.result]

\* the number of edges of the graph
GraphEdgeCount(g) ==
  LET RECURSIVE Sum(_)
      Sum(S) == IF S = {} THEN 0
                ELSE LET k == CHOOSE q \in S : TRUE
                     IN Len(g.edges[k]) + Sum(S \ {k})
  IN Sum(DOMAIN g.edges)

\* graph.addNode(id, manifest), for the document doc of the resource id
DoAddNode(id, doc, maxNodes) ==
  /\ Len(graph.nodes) < maxNodes \/ IsGraphNode(graph, id)
  /\ graph' = AddNode(graph, id, [resource |-> id, doc |-> doc])
  /\ last' = [op |-> "addNode"]
  /\ UNCHANGED <<nodes, deps, schemas, rules>>

\* graph.addEdge(from, to)
DoAddEdge(from, to, maxEdges) ==
  /\ GraphEdgeCount(graph) < maxEdges
  /\ graph' = AddEdge(graph, from, to)
  /\ last' = [op |-> "addEdge"]
  /\ UNCHANGED <<nodes, deps, schemas, rules>>

\* graph.topologicalSort()
DoTopologicalSort ==
  /\ last' = [op |-> "topologicalSort",
              thrown |-> TopologicalSort(graph).thrown,
              result |-> TopologicalSort(graph).result]
  /\ UNCHANGED <<nodes, deps, schemas, rules, graph>>

----------------------------------------------------------------------------
(* Validator: the list of rules.  A rule is held by its id, its            *)
(* description and the name of its function validate.                      *)

Rule(id, description, validate) ==
  [id |-> id, description |-> description, validate |-> validate]

\* builtInRules.findIndex(r => r.id === id), 0 when -1
FindRuleIndex(list, id) ==
  IF \E i \in DOMAIN list : list[i].id = id
  THEN CHOOSE i \in DOMAIN list :
         list[i].id = id /\ \A j \in 1..(i - 1) : list[j].id # id
  ELSE 0

\* registerRule that pushes the rule whether or not the id is present
RegisterRulePushes(list, rule) == Append(list, rule)

\* Validator.registerRule
RegisterRule(list, rule) ==
  IF FindRuleIndex(list, rule.id) >= 1
  THEN [list EXCEPT ![FindRuleIndex(list, rule.id)] = rule]
  ELSE Append(list, rule)

\* Validator.unregisterRule: splice(index, 1)
UnregisterRule(list, ruleId) ==
  IF FindRuleIndex(list, ruleId) >= 1
  THEN SubSeq(list, 1, FindRuleIndex(list, ruleId) - 1)
         \o SubSeq(list, FindRuleIndex(list, ruleId) + 1, Len(list))
  ELSE list

\* the two rules registered when the module is loaded
RequiredMetadataName ==
  Rule("required-metadata-name",
       "Ensures all Kubernetes resources have a name in metadata",
       "required-metadata-name")
ValidLabelFormat ==
  Rule("valid-label-format",
       "Validates that all labels follow Kubernetes conventions",
       "valid-label-format")

\* Validator.builtInRules once the module is loaded
BuiltInRules == RegisterRule(RegisterRule(<<>>, RequiredMetadataName), ValidLabelFormat)

\* Validator.registerRule(rule)
DoRegisterRule(rule, maxRules) ==
  /\ Len(rules) < maxRules \/ FindRuleIndex(rules, rule.id) >= 1
  /\ rules' = RegisterRule(rules, rule)
  /\ last' = [op |-> "registerRule", rule |-> rule, before |-> rules]
  /\ UNCHANGED <<nodes, deps, schemas, graph>>

\* Validator.unregisterRule(ruleId)
DoUnregisterRule(ruleId) ==
  /\ rules' = UnregisterRule(rules, ruleId)
  /\ last' = [op |-> "unregisterRule", ruleId |-> ruleId, before |-> rules]
  /\ UNCHANGED <<nodes, deps, schemas, graph>>

----------------------------------------------------------------------------
(* Validator: the validation of constructs.  A problem is a ValidationError *)
(* (code, severity, path); the path of a construct is one entry holding its *)
(* node.path, followed by the properties appended to it.  The validate      *)
(* function of a rule is named by a string: the two rules of the module and *)
(* the functions the application supplies.                                  *)

\* context.path
ConstructPath(n) == <<[construct |-> Path(n)]>>

\* /^[a-z0-9A-Z]([-a-z0-9A-Z_.]*[a-z0-9A-Z])?$/
MatchesLabelValue(value) ==
  /\ value # <<>>
  /\ ~NotLabelValueChar(value[1]) /\ value[1] \notin {"-", "_", "."}
  /\ ~NotLabelValueChar(value[Len(value)]) /\ value[Len(value)] \notin {"-", "_", "."}
  /\ \A i \in DOMAIN value : ~NotLabelValueChar(value[i])

\* NamingStrategy.validateLabelValue: the errors
ValidateLabelValue(value) ==
  (IF Len(value) > 63 THEN <<"Label value cannot exceed 63 characters">> ELSE <<>>)
    \o (IF value # <<>> /\ ~MatchesLabelValue(value)
        THEN <<"Label value must contain only alphanumeric characters">>
        ELSE <<>>)

RECURSIVE LabelErrors(_, _)
\* the errors of validateLabelValue for the labels of the given keys, in the
\* order of Object.entries; every key of the labels of the model is a valid
\* label key
LabelErrors(labels, keys) ==
  IF keys = {} THEN <<>>
  ELSE LET key == CHOOSE k \in keys : TRUE
       IN [i \in DOMAIN ValidateLabelValue(labels[key]) |->
             [key |-> key, error |-> ValidateLabelValue(labels[key])[i]]]
            \o LabelErrors(labels, keys \ {key})

\* MetadataPropagation.validateMetadata(resource.metadata): the errors for
\* the name, the namespace and the labels
ValidateObjectMeta(name, metadata) ==
  ValidateMetadata(name)
    \o (IF metadata.namespace # <<>>
        THEN [i \in DOMAIN ValidateResourceName(metadata.namespace) |->
                <<"Namespace: ", ValidateResourceName(metadata.namespace)[i]>>]
        ELSE <<>>)
    \o [i \in DOMAIN LabelErrors(metadata.labels, DOMAIN metadata.labels) |->
          <<"Label value: ", LabelErrors(metadata.labels, DOMAIN metadata.labels)[i]>>]

\* the rule 'required-metadata-name'
RequiredMetadataNameErrors(n) ==
  IF IsResource(n) /\ nodes[n].name = <<>>
  THEN <<Problem("MISSING_RESOURCE_NAME", "error",
                 PropertyPath(PropertyPath(ConstructPath(n), "metadata"), "name"))>>
  ELSE <<>>

\* the rule 'valid-label-format'
ValidLabelFormatErrors(n) ==
  IF IsResource(n)
  THEN LET found == LabelErrors(nodes[n].parts.metadata.labels,
                                DOMAIN nodes[n].parts.metadata.labels)
       IN [i \in DOMAIN found |->
             Problem("INVALID_LABEL_VALUE", "error",
                     PropertyPath(PropertyPath(PropertyPath(ConstructPath(n),
                                  "metadata"), "labels"), found[i].key))]
  ELSE <<>>

\* the path 'test.path' of the problems the rules of the application return
TestPath == <<[property |-> "test"], [property |-> "path"]>>

\* rule.validate(construct, context): whether it throws, and the problems it
\* returns
RuleOutcome(rule, n) ==
  CASE rule.validate = "required-metadata-name" ->
         [thrown |-> FALSE, errors |-> RequiredMetadataNameErrors(n)]
    [] rule.validate = "valid-label-format" ->
         [thrown |-> FALSE, errors |-> ValidLabelFormatErrors(n)]
    [] rule.validate = "throws" -> [thrown |-> TRUE, errors |-> <<>>]
    [] rule.validate = "warns" ->
         [thrown |-> FALSE,
          errors |-> <<Problem("TEST_WARNING", "warning", TestPath)>>]
    [] rule.validate = "informs" ->
         [thrown |-> FALSE, errors |-> <<Problem("TEST_INFO", "info", TestPath)>>]
    [] rule.validate = "errs-twice" ->
         [thrown |-> FALSE,
          errors |-> <<Problem("TEST_ERROR", "error", TestPath),
                       Problem("TEST_ERROR", "error", TestPath)>>]
    [] OTHER -> [thrown |-> FALSE, errors |-> <<>>]

\* the problem pushed in the catch block for a rule that has thrown
RuleExecutionFailed(rule, n) ==
  [code |-> "RULE_EXECUTION_FAILED", severity |-> "error",
   path |-> ConstructPath(n), rule |-> rule.id]

\* one turn of the loop over the rules: try { push(...rule.validate()) }
\* catch { push(RULE_EXECUTION_FAILED) }
ApplyRule(rule, n) ==
  IF RuleOutcome(rule, n).thrown THEN <<RuleExecutionFailed(rule, n)>>
  ELSE RuleOutcome(rule, n).errors

RECURSIVE ApplyRulesUntilThrow(_, _, _)
\* a loop over the rules that records the failure of a rule and leaves the
\* loop
ApplyRulesUntilThrow(ruleList, i, n) ==
  IF i > Len(ruleList) THEN <<>>
  ELSE IF RuleOutcome(ruleList[i], n).thrown
       THEN <<RuleExecutionFailed(ruleList[i], n)>>
       ELSE ApplyRule(ruleList[i], n) \o ApplyRulesUntilThrow(ruleList, i + 1, n)

RECURSIVE ApplyRules(_, _, _)
\* validateSingleConstruct: the loop over the rules, from the i-th on
ApplyRules(ruleList, i, n) ==
  IF i > Len(ruleList) THEN <<>>
  ELSE ApplyRule(ruleList[i], n) \o ApplyRules(ruleList, i + 1, n)

\* /^[a-zA-Z0-9][a-zA-Z0-9_-]*$/
MatchesConstructId(id) ==
  /\ id # <<>>
  /\ IsLower(id[1]) \/ IsUpper(id[1]) \/ IsDigit(id[1])
  /\ \A i \in DOMAIN id :
       IsLower(id[i]) \/ IsUpper(id[i]) \/ IsDigit(id[i]) \/ id[i] \in {"_", "-"}

RECURSIVE HasCircularDependency(_, _)
\* validateNoCircularDependencies: hasCircularDependency(current), with the
\* constructs on the recursion stack
HasCircularDependency(current, recursionStack) ==
  \/ current \in recursionStack
  \/ \E i \in DOMAIN Children(current) :
       HasCircularDependency(Children(current)[i], recursionStack \cup {current})

\* Validator.validateConstructStructure
ValidateConstructStructure(n) ==
  (IF nodes[n].id = <<>>
   THEN <<Problem("MISSING_CONSTRUCT_ID", "error", ConstructPath(n))>> ELSE <<>>)
    \o (IF ~MatchesConstructId(nodes[n].id)
        THEN <<Problem("INVALID_CONSTRUCT_ID", "error", ConstructPath(n))>>
        ELSE <<>>)
    \o (IF HasCircularDependency(n, {})
        THEN <<Problem("CIRCULAR_DEPENDENCY", "error", ConstructPath(n))>>
        ELSE <<>>)

\* Validator.validateResourceNameUniqueness: one problem per sibling resource
\* of the same name and kind
ValidateResourceNameUniqueness(n) ==
  IF nodes[n].scope = 0 \/ nodes[n].name = <<>> THEN <<>>
  ELSE LET conflicting ==
             SelectSeq(Children(nodes[n].scope),
                       LAMBDA sibling : /\ sibling # n
                                        /\ IsResource(sibling)
                                        /\ nodes[sibling].name = nodes[n].name
                                        /\ nodes[sibling].type = nodes[n].type)
       IN [i \in DOMAIN conflicting |->
             Problem("DUPLICATE_RESOURCE_NAME", "error", ConstructPath(n))]

\* Validator.validateKubernetesSpecificRules: apiVersion, kind and metadata
\* are set by the constructors of the resources
ValidateKubernetesSpecificRules(n) ==
  [i \in DOMAIN ValidateObjectMeta(nodes[n].name, nodes[n].parts.metadata) |->
     Problem("INVALID_RESOURCE_METADATA", "error",
             PropertyPath(ConstructPath(n), "metadata"))]
    \o ValidateResourceNameUniqueness(n)

\* Validator.validateSingleConstruct
ValidateSingleConstruct(n, ruleList) ==
  ApplyRules(ruleList, 1, n)
    \o ValidateConstructStructure(n)
    \o (IF IsResource(n) THEN ValidateKubernetesSpecificRules(n) ELSE <<>>)

\* ValidationOptions; maxErrors 0 stands for undefined (and the code treats
\* the number 0 as it treats undefined)
DefaultValidationOptions ==
  [includeWarnings |-> TRUE, includeInfo |-> FALSE, maxErrors |-> 0,
   recursive |-> TRUE, customRules |-> <<>>, skipRules |-> {}]

\* [...builtInRules, ...customRules].filter(rule => !skipRules.includes(rule.id))
RulesToApply(registered, options) ==
  SelectSeq(registered \o options.customRules,
            LAMBDA rule : rule.id \notin options.skipRules)

\* allErrors.filter(...) by the severity preferences
FilterBySeverity(allErrors, options) ==
  SelectSeq(allErrors,
            LAMBDA error :
              \/ error.severity = "error"
              \/ error.severity = "warning" /\ options.includeWarnings
              \/ error.severity = "info" /\ options.includeInfo)

\* the number of problems of a severity
CountOf(errors, severity) ==
  Len(SelectSeq(errors, LAMBDA error : error.severity = severity))

\* Validator.createValidationResult
CreateValidationResult(errors) ==
  [isValid |-> CountOf(errors, "error") = 0,
   errors |-> errors,
   errorCount |-> CountOf(errors, "error"),
   warningCount |-> CountOf(errors, "warning"),
   infoCount |-> CountOf(errors, "info")]

\* childOptions: { ...options }, maxErrors lowered by the problems collected
ChildOptions(options, allErrors) ==
  IF options.maxErrors # 0
  THEN [options EXCEPT !.maxErrors = options.maxErrors - Len(allErrors)]
  ELSE options

RECURSIVE ValidateConstruct(_, _, _)
RECURSIVE ValidateChildren(_, _, _, _, _)

\* validateConstruct: the loop over the children from the i-th on, with the
\* problems collected so far; leaves allErrors
ValidateChildren(registered, children, i, options, allErrors) ==
  IF i > Len(children) THEN allErrors
  ELSE IF options.maxErrors # 0 /\ Len(allErrors) >= options.maxErrors
       THEN allErrors
       ELSE ValidateChildren(registered, children, i + 1, options,
              allErrors \o ValidateConstruct(registered, children[i],
                                             ChildOptions(options, allErrors)).errors)

\* validateConstruct: allErrors before the filter
CollectErrors(registered, n, options) ==
  IF options.recursive
  THEN ValidateChildren(registered, Children(n), 1, options,
         ValidateSingleConstruct(n, RulesToApply(registered, options)))
  ELSE ValidateSingleConstruct(n, RulesToApply(registered, options))

\* Validator.validateConstruct(construct, options), with the rules registered
ValidateConstruct(registered, n, options) ==
  CreateValidationResult(
    FilterBySeverity(CollectErrors(registered, n, options), options))

RECURSIVE EntriesOf(_, _)
\* the properties of an object of strings, for the given keys
EntriesOf(strings, keys) ==
  IF keys = {} THEN <<>>
  ELSE LET key == CHOOSE k \in keys : TRUE
       IN <<Entry(key, Str(strings[key]))>> \o EntriesOf(strings, keys \ {key})

\* the characters of the apiVersion and the kind of a resource
ApiVersionChars(type) == IF type = "Deployment" THEN AppsV1 ELSE V1
KindChars(type) ==
  CASE type = "ConfigMap" -> ConfigMapKind
    [] type = "Service" -> ServiceKind
    [] OTHER -> DeploymentKind

\* ConfigMap.toManifest() as a document: the base manifest with the complete
\* metadata, and data if it has entries
ManifestDocument(n, metadata) ==
  Obj(
    <<Entry("apiVersion", Str(ApiVersionChars(nodes[n].type))),
      Entry("kind", Str(KindChars(nodes[n].type))),
      Entry("metadata",
        Obj(<<Entry("name", Str(metadata.name))>>
              \o (IF metadata.namespace # <<>>
                  THEN <<Entry("namespace", Str(metadata.namespace))>> ELSE <<>>)
              \o <<Entry("labels",
                         Obj(EntriesOf(metadata.labels, DOMAIN metadata.labels))),
                   Entry("annotations",
                         Obj(EntriesOf(metadata.annotations,
                                       DOMAIN metadata.annotations)))>>))>>
      \o (IF "data" \in DOMAIN nodes[n].parts /\ nodes[n].parts.data # {}
          THEN <<Entry("data",
                       Obj(EntriesOf([key \in nodes[n].parts.data |-> <<"v">>],
                                     nodes[n].parts.data)))>>
          ELSE <<>>))

\* /^\d+$/
AllDigits(chars) == chars # <<>> /\ \A i \in DOMAIN chars : IsDigit(chars[i])

\* /^v\d+(alpha\d+|beta\d+)?$/
IsVersion(chars) ==
  /\ Len(chars) >= 2 /\ chars[1] = "v"
  /\ \/ AllDigits(SubSeq(chars, 2, Len(chars)))
     \/ \E k \in 2..Len(chars), word \in {<<"a", "l", "p", "h", "a">>,
                                          <<"b", "e", "t", "a">>} :
          /\ AllDigits(SubSeq(chars, 2, k))
          /\ SubSeq(chars, k + 1, k + Len(word)) = word
          /\ AllDigits(SubSeq(chars, k + Len(word) + 1, Len(chars)))

\* Validator.isValidApiVersion
IsValidApiVersion(chars) ==
  \/ IsVersion(chars)
  \/ \E k \in 2..Len(chars) :
       /\ chars[k] = "/"
       /\ \A i \in 1..(k - 1) :
            IsLower(chars[i]) \/ IsDigit(chars[i]) \/ chars[i] \in {".", "-"}
       /\ IsVersion(SubSeq(chars, k + 1, Len(chars)))

\* Validator.isValidKind: /^[A-Z][a-zA-Z0-9]*$/
IsValidKind(chars) ==
  /\ chars # <<>> /\ IsUpper(chars[1])
  /\ \A i \in DOMAIN chars : IsLower(chars[i]) \/ IsUpper(chars[i]) \/ IsDigit(chars[i])

\* Validator.validateManifest(manifest, context, errors) for the manifest of
\* a resource, which has apiVersion, kind and metadata: the problems pushed
ValidatorValidateManifest(registered, n, metadata) ==
  [i \in DOMAIN ValidateObjectMeta(metadata.name, metadata) |->
     Problem("INVALID_METADATA", "error", PropertyPath(ConstructPath(n), "metadata"))]
    \o (IF ~IsValidApiVersion(ApiVersionChars(nodes[n].type))
        THEN <<Problem("INVALID_API_VERSION_FORMAT", "error",
                       PropertyPath(ConstructPath(n), "apiVersion"))>>
        ELSE <<>>)
    \o (IF ~IsValidKind(KindChars(nodes[n].type))
        THEN <<Problem("INVALID_KIND_FORMAT", "error",
                       PropertyPath(ConstructPath(n), "kind"))>>
        ELSE <<>>)
    \o SchemaValidateManifest(registered, ManifestDocument(n, metadata),
                              ConstructPath(n)).errors

\* Validator.validateKubernetesResource(resource, options)
ValidateKubernetesResource(registered, schemasRegistered, n, options) ==
  CreateValidationResult(
    ValidateConstruct(registered, n, [options EXCEPT !.recursive = FALSE]).errors
      \o ValidateKubernetesSpecificRules(n)
      \o ValidatorValidateManifest(schemasRegistered, n, GetCompleteMetadata(n)))

\* Validator.validateConstruct(construct, options)
DoValidateConstruct(construct, options) ==
  /\ last' = [op |-> "validateConstruct", construct |-> construct,
              options |-> options,
              result |-> ValidateConstruct(rules, construct, options)]
  /\ UNCHANGED <<nodes, deps, schemas, rules, graph>>

\* Validator.validateKubernetesResource(resource, options)
DoValidateKubernetesResource(resource, options) ==
  /\ IsResource(resource)
  /\ last' = [op |-> "validateKubernetesResource", construct |-> resource,
              options |-> options,
              result |-> ValidateKubernetesResource(rules, schemas, resource, options)]
  /\ UNCHANGED <<nodes, deps, schemas, rules, graph>>

----------------------------------------------------------------------------
(* The operations of the tracker specification. *)

NoOp == [op |-> "none"]

Init ==
  /\ nodes = <<>>
  /\ deps = NoDeps
  /\ last = NoOp
  /\ schemas = BuiltInSchemas
  /\ rules = BuiltInRules
  /\ graph = NewDependencyGraph

\* new Construct(scope, id): the constructor throws on a duplicate sibling id
NewConstructUnchecked(scope, id, maxNodes) ==
  /\ Len(nodes) < maxNodes
  /\ nodes' = Append(nodes, NewNode(scope, id, "Construct", <<>>, NoParts))
  /\ last' = [op |-> "new", thrown |-> NoError]
  /\ UNCHANGED <<deps, schemas, rules, graph>>

NewConstruct(scope, id, maxNodes) ==
  /\ Len(nodes) < maxNodes
  /\ IF scope # 0 /\ HasChildWithId(scope, id)
     THEN /\ UNCHANGED nodes
          /\ last' = [op |-> "new", thrown |-> DuplicateId(scope, id)]
     ELSE /\ nodes' = Append(nodes, NewNode(scope, id, "Construct", <<>>, NoParts))
          /\ last' = [op |-> "new", thrown |-> NoError]
  /\ UNCHANGED <<deps, schemas, rules, graph>>

\* tracker.addDependency(dependent, dependency, type)
AddDependency(dependent, dependency, type, maxEdges) ==
  /\ EdgeCount(deps) < maxEdges
  /\ UNCHANGED <<schemas, rules, graph>>
  /\ deps' = AddDependencyTo(deps, dependent, dependency, type)
  /\ last' = [op |-> "addDependency", dependent |-> dependent,
              dependency |-> dependency, type |-> type, before |-> deps]
  /\ UNCHANGED nodes

\* tracker.orderConstructs(constructs)
DoOrderConstructs(constructs) ==
  /\ LET r == OrderConstructs(deps, constructs)
     IN last' = [op |-> "orderConstructs", input |-> constructs,
                 thrown |-> r.thrown, result |-> r.result]
  /\ UNCHANGED <<nodes, deps, schemas, rules, graph>>

\* tracker.detectCircularDependencies(root)
DoDetectCircularDependencies(root) ==
  /\ last' = [op |-> "detectCircularDependencies", root |-> root,
              result |-> DetectCircularDependencies(deps, root)]
  /\ UNCHANGED <<nodes, deps, schemas, rules, graph>>

Next ==
  \/ \E scope \in {0} \cup NodeIds, id \in Ids : NewConstruct(scope, id, MaxNodes)
  \/ \E a, b \in NodeIds : AddDependency(a, b, DefaultType, MaxEdges)
  \/ \E cs \in SeqsOver(NodeIds, Len(nodes)) : DoOrderConstructs(cs)
  \/ \E root \in NodeIds : DoDetectCircularDependencies(root)

Spec == Init /\ [][Next]_vars

----------------------------------------------------------------------------
(* The operations on applications, stacks, resources and composites. *)

Apps == {n \in NodeIds : nodes[n].type = "App"}
Stacks == {n \in NodeIds : nodes[n].type = "Stack"}
Resources == {n \in NodeIds : IsResource(n)}

CompositeTypes == {"WebService", "Database", "Microservice"}

\* the composites the application itself has created
TopComposites ==
  {n \in NodeIds : /\ nodes[n].type \in CompositeTypes
                   /\ nodes[nodes[n].scope].type \notin CompositeTypes}

Composites == {n \in NodeIds : nodes[n].type \in CompositeTypes}

World == [nodes |-> nodes, deps |-> deps]

\* new App()
NewApp(maxApps) ==
  /\ Cardinality(Apps) < maxApps
  /\ nodes' = Append(nodes, NewNode(0, AppId, "App", <<>>, NoParts))
  /\ last' = [op |-> "new", thrown |-> NoError]
  /\ UNCHANGED <<deps, schemas, rules, graph>>

\* StackProps: {}
NoStackProps == [namespace |-> <<>>, labels |-> NoEntries]

\* Stack constructor: this.namespace and this.labels
StackParts(id, props) ==
  [namespace |-> props.namespace,
   labels |-> Assign(("app.kubernetes.io/managed-by" :> Konverge)
                       @@ ("konverge.io/stack-name" :> id),
                     props.labels)]

\* new Stack(app, id, props)
NewStackWith(app, id, props, maxStacks) ==
  /\ Cardinality(Stacks) < maxStacks
  /\ IF HasChildWithId(app, id)
     THEN /\ UNCHANGED nodes
          /\ last' = [op |-> "new", thrown |-> DuplicateId(app, id)]
     ELSE /\ nodes' = Append(nodes, NewNode(app, id, "Stack", <<>>,
                                             StackParts(id, props)))
          /\ last' = [op |-> "new", thrown |-> NoError]
  /\ UNCHANGED <<deps, schemas, rules, graph>>

\* new Stack(app, id)
NewStack(app, id, maxStacks) == NewStackWith(app, id, NoStackProps, maxStacks)

\* new ConfigMap / Deployment / Service(scope, id, props)
NewResource(scope, id, type, props, maxResources) ==
  /\ Cardinality(Resources) < maxResources
  /\ IF HasChildWithId(scope, id)
     THEN /\ UNCHANGED nodes
          /\ last' = [op |-> "new", thrown |-> DuplicateId(scope, id)]
     ELSE /\ nodes' = WithResource(nodes, scope, id, type, props)
          /\ last' = [op |-> "new", thrown |-> NoError]
  /\ UNCHANGED <<deps, schemas, rules, graph>>

\* a constructor of a composite has returned, leaving the world w
Constructed(w) ==
  /\ nodes' = w.nodes
  /\ UNCHANGED <<schemas, rules, graph>>
  /\ deps' = w.deps
  /\ last' = [op |-> "new", thrown |-> NoError]

\* new WebService(scope, id, { image, config })
NewWebService(scope, id, config, maxComposites) ==
  /\ Cardinality(TopComposites) < maxComposites
  /\ IF HasChildWithId(scope, id)
     THEN /\ UNCHANGED <<nodes, deps, schemas, rules, graph>>
          /\ last' = [op |-> "new", thrown |-> DuplicateId(scope, id)]
     ELSE Constructed(ConstructWebService(World, scope, id, config))

\* new Database(scope, id, props)
NewDatabase(scope, id, maxComposites) ==
  /\ Cardinality(TopComposites) < maxComposites
  /\ IF HasChildWithId(scope, id)
     THEN /\ UNCHANGED <<nodes, deps, schemas, rules, graph>>
          /\ last' = [op |-> "new", thrown |-> DuplicateId(scope, id)]
     ELSE Constructed(ConstructDatabase(World, scope, id))

\* new Microservice(scope, id, { webService, database, sharedConfig })
NewMicroservice(scope, id, sharedConfig, withDatabase, webConfig, maxComposites) ==
  /\ Cardinality(TopComposites) < maxComposites
  /\ IF HasChildWithId(scope, id)
     THEN /\ UNCHANGED <<nodes, deps, schemas, rules, graph>>
          /\ last' = [op |-> "new", thrown |-> DuplicateId(scope, id)]
     ELSE Constructed(ConstructMicroservice(World, scope, id, sharedConfig,
                                            withDatabase, webConfig))

\* addConfig or addSharedConfig has returned, leaving the world w
ConfigAdded(w) ==
  /\ nodes' = w.nodes
  /\ UNCHANGED <<schemas, rules, graph>>
  /\ deps' = w.deps
  /\ last' = [op |-> "addConfig", thrown |-> NoError]

\* addConfig or addSharedConfig: new ConfigMap throws when the owner already
\* has a child of that id
AddConfigStep(owner, field, id, deployment, key) ==
  IF nodes[owner].parts[field] = 0 /\ HasChildWithId(owner, id)
  THEN /\ UNCHANGED <<nodes, deps, schemas, rules, graph>>
       /\ last' = [op |-> "addConfig", thrown |-> DuplicateId(owner, id)]
  ELSE ConfigAdded(AddConfigData(World, owner, field, id, deployment, key))

\* webService.addConfig(key, value)
AddConfig(webService, key) ==
  AddConfigStep(webService, "configMap", ConfigId,
                nodes[webService].parts.deployment, key)

\* microservice.addSharedConfig(key, value)
AddSharedConfig(microservice, key) ==
  AddConfigStep(microservice, "sharedConfig", SharedConfigId,
                nodes[nodes[microservice].parts.webService].parts.deployment, key)

\* tracker.autoDetectDependencies(constructs), the constructs of a tree
DoAutoDetectDependencies(root) ==
  /\ UNCHANGED <<schemas, rules, graph>>
  /\ deps' = AutoDetectDependencies(deps, GetAllConstructsInTree(root))
  /\ last' = [op |-> "autoDetectDependencies",
              input |-> GetAllConstructsInTree(root), before |-> deps]
  /\ UNCHANGED nodes

\* a synthesis that has returned or thrown r: it leaves its registry, and in
\* `last` the root, the registry as it was when the synthesis started, and
\* what the synthesis returned or threw
Synthesized(op, root, r) ==
  /\ UNCHANGED <<schemas, rules, graph>>
  /\ deps' = r.deps
  /\ last' = [op |-> op, root |-> root, registered |-> deps, thrown |-> r.thrown,
              manifests |-> r.manifests, order |-> r.order,
              validated |-> r.validated]
  /\ UNCHANGED nodes

\* Synthesizer.visitConstruct(root)
DoVisitConstruct(root) ==
  Synthesized("visitConstruct", root, VisitConstruct(deps, root))

\* stack.synthesize()
DoSynthesize(stack) ==
  Synthesized("synthesize", stack, Synthesize(deps, stack))

\* MetadataPropagation.propagateMetadata(construct, baseMetadata, options)
DoPropagateMetadata(construct, baseMetadata, options) ==
  /\ last' = [op |-> "propagateMetadata", construct |-> construct,
              baseMetadata |-> baseMetadata, options |-> options,
              metadata |-> PropagateMetadata(nodes, nodes[construct].scope,
                                             nodes[construct].id,
                                             baseMetadata, options),
              inheritedLabelsCount |->
                InheritedLabelsCount(nodes, FindParentStack(construct), options)]
  /\ UNCHANGED <<nodes, deps, schemas, rules, graph>>

----------------------------------------------------------------------------
(* Synthesizer.orderResources: documents by priority of kind, then name. *)

\* resourcePriority: lower numbers come first
ResourcePriority ==
  ("Namespace" :> 0) @@ ("ServiceAccount" :> 1) @@ ("Secret" :> 2)
    @@ ("ConfigMap" :> 3) @@ ("PersistentVolume" :> 4)
    @@ ("PersistentVolumeClaim" :> 5) @@ ("Role" :> 6) @@ ("ClusterRole" :> 7)
    @@ ("RoleBinding" :> 8) @@ ("ClusterRoleBinding" :> 9) @@ ("Service" :> 10)
    @@ ("Deployment" :> 11) @@ ("StatefulSet" :> 12) @@ ("DaemonSet" :> 13)
    @@ ("Job" :> 14) @@ ("CronJob" :> 15) @@ ("Ingress" :> 16)

\* resourcePriority[kind] ?? 999
UnlistedPriority == 999
PriorityOf(kind) ==
  IF kind \in DOMAIN ResourcePriority THEN ResourcePriority[kind]
  ELSE UnlistedPriority

\* the collation of the characters of a resource name: the hyphen, then
\* the digits, then the letters
CollationOrder == <<"-">> \o Digits \o LowerLetters

\* a.localeCompare(b) from the character at i on, for names of lowercase
\* letters, digits and hyphens: negative, zero or positive
RECURSIVE LocaleCompareFrom(_, _, _)
LocaleCompareFrom(a, b, i) ==
  IF i > Len(a) /\ i > Len(b) THEN 0
  ELSE IF i > Len(a) THEN -1
  ELSE IF i > Len(b) THEN 1
  ELSE IF a[i] = b[i] THEN LocaleCompareFrom(a, b, i + 1)
  ELSE IF IndexOf(CollationOrder, a[i]) < IndexOf(CollationOrder, b[i]) THEN -1
  ELSE 1

LocaleCompare(a, b) == LocaleCompareFrom(a, b, 1)

\* a comparison by the priority of the kind alone
CompareManifestsByKind(a, b) ==
  PriorityOf(a.kind) - PriorityOf(b.kind)

\* the comparison of orderResources: by priority, then by name (a document
\* without name has the name '')
CompareManifests(a, b) ==
  IF PriorityOf(a.kind) # PriorityOf(b.kind)
  THEN PriorityOf(a.kind) - PriorityOf(b.kind)
  ELSE LocaleCompare(a.name, b.name)

\* Array.prototype.sort is stable: a document goes behind every document
\* that does not compare greater than it
InsertManifest(sorted, manifest) ==
  LET before == {i \in DOMAIN sorted : CompareManifests(sorted[i], manifest) <= 0}
      at == IF before = {} THEN 0 ELSE CHOOSE i \in before : \A j \in before : j <= i
  IN SubSeq(sorted, 1, at) \o <<manifest>> \o SubSeq(sorted, at + 1, Len(sorted))

RECURSIVE SortManifests(_, _)
SortManifests(manifests, n) ==
  IF n = 0 THEN <<>>
  ELSE InsertManifest(SortManifests(manifests, n - 1), manifests[n])

\* Synthesizer.orderResources(manifests)
OrderResources(manifests) == SortManifests(manifests, Len(manifests))

\* Synthesizer.orderResources(manifests), called on the list at hand
DoOrderResources ==
  /\ last.op = "manifests"
  /\ last' = [op |-> "orderResources", input |-> last.input,
              output |-> OrderResources(last.input)]
  /\ UNCHANGED <<nodes, deps, schemas, rules, graph>>

\* NamingStrategy.resolveNameCollision(construct, baseName)
DoResolveNameCollision(construct, baseName) ==
  /\ last' = [op |-> "resolveNameCollision", construct |-> construct,
              baseName |-> baseName,
              thrown |-> ResolveNameCollision(construct, baseName).thrown,
              name |-> ResolveNameCollision(construct, baseName).name]
  /\ UNCHANGED <<nodes, deps, schemas, rules, graph>>

\* construct.node.findAll(predicate)
DoFindAll(construct, predicate) ==
  /\ last' = [op |-> "findAll", construct |-> construct, predicate |-> predicate,
              result |-> FindAll(construct, predicate)]
  /\ UNCHANGED <<nodes, deps, schemas, rules, graph>>

\* NamingStrategy.generateResourceName(construct, { maxLength, includeHash })
DoGenerateResourceName(construct, maxLength, includeHash) ==
  /\ last' = [op |-> "generateResourceName", construct |-> construct,
              maxLength |-> maxLength, includeHash |-> includeHash,
              name |-> GenerateNameOfPath(Path(construct), maxLength, includeHash,
                                          DEFAULT_SEPARATOR, FALSE)]
  /\ UNCHANGED <<nodes, deps, schemas, rules, graph>>

----------------------------------------------------------------------------
(* The registry specification: constructs and edges of two types. *)

MaxRegistryNodes == 3
MaxRegistryEdges == 3
RegistryTypes == {"creation-order", "network"}

NextRegistry ==
  \/ \E scope \in {0} \cup NodeIds, id \in Ids : NewConstruct(scope, id, MaxRegistryNodes)
  \/ \E a, b \in NodeIds, type \in RegistryTypes :
       AddDependency(a, b, type, MaxRegistryEdges)

SpecRegistry == Init /\ [][NextRegistry]_vars

----------------------------------------------------------------------------
(* The synthesis specification: valid resources under one stack, edges     *)
(* between them, and synthesis.                                            *)

MaxApps == 1
MaxStacks == 1
MaxSynthResources == 3
MaxSynthEdges == 2
StackIds == {<<"s">>}

\* the resources the application of this specification creates
SynthResources ==
  {[id |-> <<"a">>, type |-> "ConfigMap"],
   [id |-> <<"b">>, type |-> "Deployment"],
   [id |-> <<"c">>, type |-> "Service"]}

NextSynth ==
  \/ NewApp(MaxApps)
  \/ \E app \in Apps, id \in StackIds : NewStack(app, id, MaxStacks)
  \/ \E scope \in Stacks \cup Resources, r \in SynthResources :
       NewResource(scope, r.id, r.type, ValidProps, MaxSynthResources)
  \/ \E a, b \in Resources : AddDependency(a, b, DefaultType, MaxSynthEdges)
  \/ \E root \in NodeIds : DoVisitConstruct(root)
  \/ \E stack \in Stacks : DoSynthesize(stack)

SpecSynth == Init /\ [][NextSynth]_vars

----------------------------------------------------------------------------
(* The resources specification: resources with valid and invalid props and *)
(* with ids that differ only in case.                                      *)

MaxNamedResources == 3
NamingIds == {<<"c">>, <<"C">>}
NamedTypes == {"ConfigMap", "Deployment"}
ResourceProps == {ValidProps, EmptyProps, BadNameProps}

NextResources ==
  \/ NewApp(MaxApps)
  \/ \E app \in Apps, id \in StackIds : NewStack(app, id, MaxStacks)
  \/ \E scope \in Stacks \cup Resources, id \in NamingIds,
        type \in NamedTypes, props \in ResourceProps :
       NewResource(scope, id, type, props, MaxNamedResources)
  \/ \E root \in NodeIds : DoVisitConstruct(root)
  \/ \E stack \in Stacks : DoSynthesize(stack)

SpecResources == Init /\ [][NextResources]_vars

----------------------------------------------------------------------------
(* The patterns specification: one composite under a stack, explicit       *)
(* edges, and the automatic detection.                                     *)

MaxComposites == 1
MaxAutoEdges == 3
CompositeIds == {<<"m">>}
ConfigKeys == {"k1", "k2"}
ConfigProps == {{}, {"k1"}}

NextAuto ==
  \/ NewApp(MaxApps)
  \/ \E app \in Apps, id \in StackIds : NewStack(app, id, MaxStacks)
  \/ \E scope \in Stacks, id \in CompositeIds, config \in ConfigProps :
       NewWebService(scope, id, config, MaxComposites)
  \/ \E scope \in Stacks, id \in CompositeIds : NewDatabase(scope, id, MaxComposites)
  \/ \E scope \in Stacks, id \in CompositeIds, sharedConfig \in ConfigProps,
        withDatabase \in BOOLEAN, webConfig \in ConfigProps :
       NewMicroservice(scope, id, sharedConfig, withDatabase, webConfig, MaxComposites)
  \/ \E webService \in {n \in NodeIds : nodes[n].type = "WebService"},
        key \in ConfigKeys : AddConfig(webService, key)
  \/ \E microservice \in {n \in NodeIds : nodes[n].type = "Microservice"},
        key \in ConfigKeys : AddSharedConfig(microservice, key)
  \/ \E a, b \in Stacks \cup TopComposites :
       AddDependency(a, b, "custom", MaxAutoEdges)
  \/ \E root \in Stacks \cup Composites : DoAutoDetectDependencies(root)

SpecAuto == Init /\ [][NextAuto]_vars

----------------------------------------------------------------------------
(* The ordering specification: orderResources on lists of documents of    *)
(* listed and unlisted kinds, with and without names.                     *)

MaxManifests == 3

OrderedKinds == {"Namespace", "ConfigMap", "Deployment", "Ingress", "CustomResource"}

OrderedNames ==
  {<<>>, <<"a">>, <<"a", "-", "b">>, <<"a", "0">>, <<"a", "b">>, <<"b">>}

ManifestSet ==
  {[apiVersion |-> "v1", kind |-> kind, name |-> name, namespace |-> <<>>,
    labels |-> NoEntries, annotations |-> NoEntries]
     : kind \in OrderedKinds, name \in OrderedNames}

\* the lists of at most MaxManifests documents, repetitions included
ManifestLists == UNION {[1..n -> ManifestSet] : n \in 0..MaxManifests}

\* no construct, and a list of documents at hand
InitOrder ==
  /\ nodes = <<>>
  /\ deps = NoDeps
  /\ \E manifests \in ManifestLists : last = [op |-> "manifests", input |-> manifests]
  /\ schemas = BuiltInSchemas
  /\ rules = BuiltInRules
  /\ graph = NewDependencyGraph

NextOrder == DoOrderResources

SpecOrder == InitOrder /\ [][NextOrder]_vars

----------------------------------------------------------------------------
(* The tree specification: applications and constructs, under an owner or *)
(* as roots, with ids that repeat and an id that holds the separator of   *)
(* paths.                                                                  *)

MaxTreeNodes == 4
MaxTreeApps == 2

TreeIds == Ids \cup {<<"a", "/", "b">>}

NextTree ==
  \/ NewApp(MaxTreeApps)
  \/ \E scope \in {0} \cup NodeIds, id \in TreeIds : NewConstruct(scope, id, MaxTreeNodes)

SpecTree == Init /\ [][NextTree]_vars

----------------------------------------------------------------------------
(* The search specification: findAll over trees of constructs, without a   *)
(* predicate and with predicates on the id.                                *)

MaxFindNodes == 4

Predicates == {NoPredicate, IdIs(<<"a">>), IdIsNot(<<"a">>)}

NextFind ==
  \/ \E scope \in {0} \cup NodeIds, id \in Ids : NewConstruct(scope, id, MaxFindNodes)
  \/ \E construct \in NodeIds, predicate \in Predicates :
       DoFindAll(construct, predicate)

SpecFind == Init /\ [][NextFind]_vars

----------------------------------------------------------------------------
(* The graph specification: a DependencyGraph receives nodes and edges,    *)
(* edges between ids that were never added as nodes included, and is       *)
(* sorted.                                                                 *)

MaxGraphNodes == 3
MaxGraphEdges == 3

GraphIds == {"a", "b", "c"}
GraphDocs == {"m1", "m2"}

NextGraph ==
  \/ \E id \in GraphIds, doc \in GraphDocs : DoAddNode(id, doc, MaxGraphNodes)
  \/ \E from, to \in GraphIds : DoAddEdge(from, to, MaxGraphEdges)
  \/ DoTopologicalSort

SpecGraph == Init /\ [][NextGraph]_vars

----------------------------------------------------------------------------
(* The rules specification: rules are registered, registered again under   *)
(* an id that is present, and unregistered.                                *)

MaxRules == 4

RuleIds == {"required-metadata-name", "test-replaceable-rule", "custom-rule"}

\* the rules the application registers: two versions under every id
RegisteredRules ==
  {Rule(id, "version 1", "passes") : id \in RuleIds}
    \cup {Rule(id, "version 2", "throws") : id \in RuleIds}

NextRules ==
  \/ \E rule \in RegisteredRules : DoRegisterRule(rule, MaxRules)
  \/ \E ruleId \in RuleIds \cup {"valid-label-format", "missing-rule"} :
       DoUnregisterRule(ruleId)

SpecRules == Init /\ [][NextRules]_vars

----------------------------------------------------------------------------
(* The validation specification: constructs with valid and invalid ids and *)
(* ConfigMaps with valid and invalid names under one stack are validated   *)
(* under options that filter, limit and extend the rules; a rule that      *)
(* throws is registered and unregistered.                                  *)

MaxValidatorNodes == 4
MaxValidatorRules == 3

ValidatorIds == {<<"c">>, <<"_">>}
ValidatorResourceIds == {<<"a">>, <<"b">>}

FaultyRule == Rule("faulty-rule", "Always throws an error", "throws")
WarningRule == Rule("test-warning-rule", "Generates test warnings", "warns")
InfoRule == Rule("test-info-rule", "Generates test info", "informs")
TwoErrorsRule == Rule("two-errors-rule", "Generates two errors", "errs-twice")

\* the options the application validates under
ValidationOptionsSet ==
  {DefaultValidationOptions,
   [DefaultValidationOptions EXCEPT !.customRules = <<FaultyRule, WarningRule, InfoRule>>],
   [DefaultValidationOptions EXCEPT !.customRules = <<WarningRule, InfoRule>>,
                                    !.includeWarnings = FALSE, !.includeInfo = TRUE],
   [DefaultValidationOptions EXCEPT !.includeWarnings = FALSE],
   [DefaultValidationOptions EXCEPT !.customRules = <<TwoErrorsRule>>,
                                    !.maxErrors = 1],
   [DefaultValidationOptions EXCEPT !.maxErrors = 2],
   [DefaultValidationOptions EXCEPT !.customRules = <<FaultyRule>>,
                                    !.recursive = FALSE],
   [DefaultValidationOptions EXCEPT !.customRules = <<WarningRule, FaultyRule>>,
                                    !.skipRules = {"required-metadata-name",
                                                   "test-warning-rule"},
                                    !.includeInfo = TRUE]}

NextValidator ==
  \/ NewApp(MaxApps)
  \/ \E app \in Apps, id \in StackIds : NewStack(app, id, MaxStacks)
  \/ \E scope \in NodeIds, id \in ValidatorIds :
       NewConstruct(scope, id, MaxValidatorNodes)
  \/ \E scope \in Stacks, id \in ValidatorResourceIds,
        props \in {ValidProps, BadNameProps} :
       /\ Len(nodes) < MaxValidatorNodes
       /\ NewResource(scope, id, "ConfigMap", props, MaxValidatorNodes)
  \/ DoRegisterRule(FaultyRule, MaxValidatorRules)
  \/ DoUnregisterRule("faulty-rule")
  \/ \E construct \in NodeIds, options \in ValidationOptionsSet :
       DoValidateConstruct(construct, options)
  \/ \E resource \in Resources, options \in ValidationOptionsSet :
       DoValidateKubernetesResource(resource, options)

SpecValidator == Init /\ [][NextValidator]_vars

----------------------------------------------------------------------------
(* The collision specification: a root with a child x whose siblings x-1,  *)
(* x-2, ... take the names that resolveNameCollision tries for it, few of  *)
(* them or a thousand.                                                     *)

MaxCollisionNodes == 4

\* the numbers of children the root starts with
CrowdSizes == {0, 2, 999, 1000}

RootId == <<"r">>
NumberedId(k) == <<"x", "-">> \o Decimal(k)

\* a root and its children x and x-1 .. x-k
NumberedTree(k) ==
  [i \in 1..(k + 2) |->
     IF i = 1 THEN NewNode(0, RootId, "Construct", <<>>, NoParts)
     ELSE IF i = 2 THEN NewNode(1, <<"x">>, "Construct", <<>>, NoParts)
     ELSE NewNode(1, NumberedId(i - 2), "Construct", <<>>, NoParts)]

CollisionIds == {<<"y">>, NumberedId(1), NumberedId(3), <<"X", "_", "2">>}

BaseNames == {<<"r", "-", "x">>, <<"r", "-", "y">>}

InitCollision ==
  /\ \E k \in CrowdSizes : nodes = NumberedTree(k)
  /\ deps = NoDeps
  /\ last = NoOp
  /\ schemas = BuiltInSchemas
  /\ rules = BuiltInRules
  /\ graph = NewDependencyGraph

\* the constructs whose collisions are resolved: the root, the child x and
\* the construct made last
Resolved == {1, 2, Len(nodes)} \cap NodeIds

NextCollision ==
  \/ \E scope \in {0, 1}, id \in CollisionIds :
       NewConstruct(scope, id, MaxCollisionNodes)
  \/ \E construct \in Resolved, baseName \in BaseNames :
       DoResolveNameCollision(construct, baseName)

SpecCollision == InitCollision /\ [][NextCollision]_vars

----------------------------------------------------------------------------
(* The schema specification: the registry of schemas is cleared, refilled  *)
(* and extended, and documents that follow their schema, deviate from it   *)
(* or have none are validated.                                             *)

\* a document of an API version and a kind, with further properties
Document(apiVersion, kind, rest) ==
  Obj(<<Entry("apiVersion", Str(apiVersion)), Entry("kind", Str(kind))>> \o rest)

\* metadata: { name }
Named(name) == Entry("metadata", Obj(<<Entry("name", Str(name))>>))

\* metadata: { name, labels: {} }
Labelled(name) ==
  Entry("metadata", Obj(<<Entry("name", Str(name)), Entry("labels", Obj(<<>>))>>))

\* a port of a service, with further properties
Port(tenths, rest) == Obj(<<Entry("port", Num(tenths))>> \o rest)

\* spec: { ports, type }
ServiceSpec(ports, type) ==
  Entry("spec", Obj(<<Entry("ports", Arr(ports)), Entry("type", Str(type))>>))

\* spec: { replicas, selector, template } with one container
DeploymentSpec(replicas, container) ==
  Entry("spec",
    Obj(<<Entry("replicas", Num(replicas)),
          Entry("selector", Obj(<<Entry("matchLabels", Obj(<<>>))>>)),
          Entry("template",
            Obj(<<Entry("spec", Obj(<<Entry("containers", Arr(<<container>>))>>))>>))>>))

Container(rest) == Obj(<<Entry("name", Str(<<"c">>)), Entry("image", Str(<<"i", "m", "g">>))>> \o rest)

Note == Entry("note", Str(<<"x">>))

ConfigMapWithoutMetadata == Document(V1, ConfigMapKind, <<>>)
ConfigMapWithUnknown ==
  Document(V1, ConfigMapKind, <<Labelled(<<"c", "m">>), Entry("data", Obj(<<Note>>)), Note>>)
ServiceWithUnknown ==
  Document(V1, ServiceKind,
           <<Named(<<"s", "v", "c">>), ServiceSpec(<<Port(800, <<Note>>)>>, <<"C", "l", "u", "s", "t", "e", "r", "I", "P">>)>>)

Documents ==
  {Document(V1, ConfigMapKind, <<Named(<<"c", "m">>), Entry("data", Obj(<<>>))>>),
   ConfigMapWithUnknown,
   ConfigMapWithoutMetadata,
   Document(V1, ConfigMapKind, <<Entry("metadata", Null)>>),
   Document(V1, ConfigMapKind, <<Entry("metadata", Str(<<"c", "m">>))>>),
   Document(V1, ConfigMapKind, <<Named(<<"B", "a", "d", "_", "N", "a", "m", "e">>), Note>>),
   Document(AppsV1, ConfigMapKind, <<Entry("metadata", Str(<<"c", "m">>))>>),
   Obj(<<Entry("kind", Str(ConfigMapKind))>>),
   Document(V1, ServiceKind, <<Named(<<"s", "v", "c">>), ServiceSpec(<<Port(800, <<>>)>>, <<"C", "l", "u", "s", "t", "e", "r", "I", "P">>)>>),
   ServiceWithUnknown,
   Document(V1, ServiceKind,
            <<Named(<<"s", "v", "c">>),
              ServiceSpec(<<Port(800, <<>>), Port(700000, <<Note>>)>>, <<"C", "l", "u", "s", "t", "e", "r", "I", "P">>)>>),
   Document(V1, ServiceKind, <<Named(<<"s", "v", "c">>), ServiceSpec(<<Port(805, <<>>)>>, <<"C", "l", "u", "s", "t", "e", "r", "I", "P">>)>>),
   Document(V1, ServiceKind, <<Named(<<"s", "v", "c">>), ServiceSpec(<<Obj(<<>>)>>, <<"x">>)>>),
   Document(AppsV1, DeploymentKind, <<Named(<<"d", "e", "p">>), DeploymentSpec(20, Container(<<>>))>>),
   Document(AppsV1, DeploymentKind,
            <<Labelled(<<"d", "e", "p">>), DeploymentSpec(20, Container(<<Note>>)), Note>>),
   Document(AppsV1, DeploymentKind, <<Named(<<"d", "e", "p">>), DeploymentSpec(-10, Obj(<<>>))>>),
   Document(AppsV1, DeploymentKind, <<Named(<<"d", "e", "p">>)>>),
   Document(<<"c", "u", "s", "t", "o", "m", "/", "v", "1">>, <<"C", "u", "s", "t", "o", "m", "R", "e", "s", "o", "u", "r", "c", "e">>, <<Named(<<"x">>)>>),
   Document(V1, TestResourceKind, <<Named(<<"x">>), Note>>),
   Document(V1, TestResourceKind,
            <<Named(<<"x">>), Entry("spec", Obj(<<Entry("name", Str(<<"x">>)), Note>>))>>),
   Document(V1, TestResourceKind, <<Entry("spec", Obj(<<Note>>))>>),
   Document(V1, TestResourceKind, <<Entry("spec", Num(10))>>)}

NextSchema ==
  \/ \E name \in SchemaNames : DoRegisterSchema(name)
  \/ DoRegisterBuiltInSchemas
  \/ DoClearSchemas
  \/ \E manifest \in Documents : DoValidateManifest(manifest)

SpecSchema == Init /\ [][NextSchema]_vars

----------------------------------------------------------------------------
(* The naming specification: constructs whose ids are long or hold         *)
(* characters that no resource name may hold.                              *)

MaxNamingNodes == 3

\* thirty letters
LongId == <<"x", "x", "x", "x", "x", "x", "x", "x", "x", "x", "x", "x", "x", "x", "x", "x", "x", "x", "x", "x", "x", "x", "x", "x", "x", "x", "x", "x", "x", "x">>
\* thirty characters, every third one a hyphen
HyphenatedId == <<"a", "b", "-", "a", "b", "-", "a", "b", "-", "a", "b", "-", "a", "b", "-", "a", "b", "-", "a", "b", "-", "a", "b", "-", "a", "b", "-", "a", "b", "-">>
\* thirty characters: hyphens, capitals, digits and underscores
MixedId == <<"-", "Z", "9", "_", "-", "Z", "9", "_", "-", "Z", "9", "_", "-", "Z", "9", "_", "-", "Z", "9", "_", "-", "Z", "9", "_", "-", "Z", "9", "_", "q", "-">>

NamingSpecIds == {<<"a">>, <<"_">>, <<"-", "B", ".">>, LongId, HyphenatedId, MixedId}

NextNaming ==
  \E scope \in {0} \cup NodeIds, id \in NamingSpecIds :
    NewConstruct(scope, id, MaxNamingNodes)

SpecNaming == Init /\ [][NextNaming]_vars

----------------------------------------------------------------------------
(* The name length specification: names are generated under a maximal      *)
(* length given by the caller, with and without the hash.                  *)

MaxLengthNodes == 2

NameLengthIds == {<<"a">>, <<"-", "B", ".">>, LongId, MixedId}

\* the values of the option maxLength
MaxLengths == {1, 3, 6, 7, 20, 63}

NextNameLength ==
  \/ \E scope \in {0} \cup NodeIds, id \in NameLengthIds :
       NewConstruct(scope, id, MaxLengthNodes)
  \/ \E construct \in NodeIds, maxLength \in MaxLengths, includeHash \in BOOLEAN :
       DoGenerateResourceName(construct, maxLength, includeHash)

SpecNameLength == Init /\ [][NextNameLength]_vars

----------------------------------------------------------------------------
(* The metadata specification: stacks and resources with namespaces,       *)
(* labels and annotations.                                                 *)

MaxMetadataResources == 2

Staging == <<"s", "t", "a", "g", "i", "n", "g">>
Production == <<"p", "r", "o", "d", "u", "c", "t", "i", "o", "n">>
NamespaceA == <<"n", "s", "-", "a">>
NamespaceB == <<"n", "s", "-", "b">>
Other == <<"x">>

\* the props of the stacks: none; a namespace and the label env; a namespace
\* and labels that automatic labels also define
StackPropsSet ==
  {NoStackProps,
   [namespace |-> NamespaceA, labels |-> "env" :> Staging],
   [namespace |-> NamespaceA,
    labels |-> ("env" :> Staging) @@ ("app.kubernetes.io/name" :> Other)]}

\* metadata a resource is given, or propagateMetadata is called with
MetadataSet ==
  {NoMetadata,
   [namespace |-> NamespaceB, labels |-> "env" :> Production,
    annotations |-> "note" :> Other],
   [namespace |-> <<>>, labels |-> "app.kubernetes.io/managed-by" :> Other,
    annotations |-> ("konverge.io/construct-path" :> Other)
                      @@ ("konverge.io/synthesized-at" :> Other)
                      @@ ("note" :> Other)]}

MetadataProps ==
  {[hasName |-> FALSE, name |-> <<>>, metadata |-> m, data |-> {"k1"}]
     : m \in MetadataSet}

BaseMetadataSet ==
  {[name |-> <<"n">>, namespace |-> m.namespace, labels |-> m.labels,
    annotations |-> m.annotations] : m \in MetadataSet}

OptionsSet ==
  {DefaultOptions,
   [DefaultOptions EXCEPT !.inheritNamespace = FALSE, !.inheritLabels = FALSE,
                          !.addAnnotations = FALSE],
   [DefaultOptions EXCEPT
      !.additionalLabels = ("env" :> Other) @@ ("tier" :> Other)
                             @@ ("konverge.io/stack-name" :> Other),
      !.additionalAnnotations = "note" :> Staging]}

NextMetadata ==
  \/ NewApp(MaxApps)
  \/ \E app \in Apps, id \in StackIds, props \in StackPropsSet :
       NewStackWith(app, id, props, MaxStacks)
  \/ \E scope \in Apps \cup Stacks, id \in Ids, props \in MetadataProps :
       NewResource(scope, id, "ConfigMap", props, MaxMetadataResources)
  \/ \E construct \in NodeIds, base \in BaseMetadataSet, options \in OptionsSet :
       DoPropagateMetadata(construct, base, options)
  \/ \E root \in NodeIds : DoVisitConstruct(root)
  \/ \E stack \in Stacks : DoSynthesize(stack)

SpecMetadata == Init /\ [][NextMetadata]_vars

----------------------------------------------------------------------------
(* The dependency graph over paths, stated without the traversals. *)

\* the pairs <<dependent path, dependency path>> of the registry's edges
PathEdges(d) ==
  UNION {{<<Path(d[p][i].dependent), Path(d[p][i].dependency)>> : i \in DOMAIN d[p]}
           : p \in DOMAIN d}

RECURSIVE ReachFrom(_, _)
\* the paths reachable from the set S by one or more edges of E
ReachFrom(E, S) ==
  LET step == {e[2] : e \in {f \in E : f[1] \in S}}
      more == S \cup step
  IN IF more = S THEN S ELSE ReachFrom(E, more)

\* p lies on a cycle of E
OnCycle(E, p) ==
  p \in ReachFrom(E, {e[2] : e \in {f \in E : f[1] = p}})

\* the edges of E with both ends in the set of paths S
Among(E, S) == {e \in E : e[1] \in S /\ e[2] \in S}

PathsOf(constructs) == {Path(constructs[i]) : i \in DOMAIN constructs}

----------------------------------------------------------------------------
(* Claims. *)

C2_CycleRaises ==
  (/\ last.op = "orderConstructs"
   /\ \E p \in PathsOf(last.input) :
        OnCycle(Among(PathEdges(deps), PathsOf(last.input)), p))
  => (last.thrown # <<>> /\ last.result = <<>>)

\* orderConstructs raised on a cycle through three nodes A -> B -> C -> A
C2_Witness ==
  /\ last.op = "orderConstructs"
  /\ last.thrown # <<>>
  /\ Cardinality(PathsOf(last.input)) = 3
  /\ Cardinality(PathEdges(deps)) = 3
  /\ \A p \in PathsOf(last.input) :
       OnCycle(Among(PathEdges(deps), PathsOf(last.input)), p)
  /\ \A e \in PathEdges(deps) : e[1] # e[2]

\* the paths of the constructs of root's subtree
SubtreePaths(root) == PathsOf(GetAllConstructsInTree(root))

\* the registry holds exactly the two edges a -> b and b -> a
TwoNodeCycle(a, b) ==
  /\ a # b
  /\ PathEdges(deps) = {<<a, b>>, <<b, a>>}
  /\ EdgeCount(deps) = 2

\* C3: detectCircularDependencies(root) returns a non-empty list whenever the
\* registry edges contain a cycle through a node of root's subtree; when the
\* registry is the two-node cycle A -> B -> A it returns exactly one cycle,
\* which contains A's path and B's path.
C3_DetectReportsCycle ==
  last.op = "detectCircularDependencies" =>
    /\ (\E p \in SubtreePaths(last.root) : OnCycle(PathEdges(deps), p))
         => Len(last.result) >= 1
    /\ \A a, b \in PathsOf([n \in NodeIds |-> n]) :
         (TwoNodeCycle(a, b) /\ {a, b} \cap SubtreePaths(last.root) # {})
           => /\ Len(last.result) = 1
              /\ {a, b} \subseteq Range(last.result[1])

\* the two-node case: the one reported cycle is A, B, A
C3_Witness ==
  /\ last.op = "detectCircularDependencies"
  /\ \E a, b \in SubtreePaths(last.root) :
       /\ TwoNodeCycle(a, b)
       /\ last.result = << <<a, b, a>> >>

RECURSIVE IsWithin(_, _)
\* n is the owner or below it
IsWithin(owner, n) ==
  n = owner \/ (nodes[n].scope # 0 /\ IsWithin(owner, nodes[n].scope))

\* the constructs passed to the last orderConstructs all lie in the tree of
\* root, and detectCircularDependencies(root) on the registry as it is
\* returns the empty list
ClearedTreeOf(root) ==
  /\ \A i \in DOMAIN last.input : IsWithin(root, last.input[i])
  /\ DetectCircularDependencies(deps, root) = <<>>

\* C28: the two cycle checks agree: if detectCircularDependencies(root)
\* returns an empty list, then orderConstructs applied to any subset of the
\* nodes of root's tree, the registry unchanged in between, returns without
\* raising the circular-dependency error.
C28_CycleChecksAgree ==
  (last.op = "orderConstructs" /\ \E root \in NodeIds : ClearedTreeOf(root))
    => last.thrown = <<>>

\* orderConstructs returned for two constructs of a tree in which detection
\* finds no cycle, one of them depending on the other, while the registry
\* holds a cycle among constructs outside that tree
C28_Witness ==
  /\ last.op = "orderConstructs"
  /\ last.thrown = <<>>
  /\ Len(last.input) = 2
  /\ <<Path(last.input[1]), Path(last.input[2])>> \in PathEdges(deps)
  /\ \E root \in NodeIds : ClearedTreeOf(root)
  /\ \E p \in DOMAIN deps : OnCycle(PathEdges(deps), p)

\* C29: whenever orderConstructs(nodes) returns, its result contains every
\* node passed in exactly once and nothing else (a permutation of the
\* input), also when some of those nodes depend on nodes that are not in the
\* input.
C29_OrderIsPermutation ==
  (last.op = "orderConstructs" /\ last.thrown = <<>>) =>
    /\ Len(last.result) = Len(last.input)
    /\ Range(last.result) = Range(last.input)

----------------------------------------------------------------------------
(* Claims about synthesis. *)

\* the resources of root's subtree, in tree order
ResourcesUnder(root) == SelectSeq(GetAllConstructsInTree(root), IsResource)

\* the last operation was a synthesis: visitConstruct or Stack.synthesize
Synthesised == last.op \in {"visitConstruct", "synthesize"}

\* the registry edges, registered before the synthesis started, between two
\* resources of the synthesised tree
RegisteredBetweenResources ==
  Among(PathEdges(last.registered), PathsOf(ResourcesUnder(last.root)))

\* C4: visitConstruct and Stack.synthesize return documents in dependency
\* order: for every edge registered with addDependency between two resources
\* of the tree before the synthesis starts (the edges forming no cycle), the
\* document of the dependency comes before the document of the dependent.
C4_DocumentsInDependencyOrder ==
  (/\ Synthesised
   /\ last.thrown = NoError
   /\ \A e \in RegisteredBetweenResources : ~OnCycle(RegisteredBetweenResources, e[1]))
  => \A e \in RegisteredBetweenResources :
       \E i, j \in DOMAIN last.manifests :
         /\ i < j
         /\ ConstructPathOf(last.manifests[i]) = e[2]
         /\ ConstructPathOf(last.manifests[j]) = e[1]

\* C5: a dependency cycle is fatal to synthesis: if two nodes of the tree are
\* registered as depending on each other when the synthesis starts, the
\* synthesis fails with the error that enumerates the cycles and returns no
\* documents.
C5_CycleFatalToSynthesis ==
  (/\ Synthesised
   /\ \E a, b \in SubtreePaths(last.root) :
        /\ a # b
        /\ {<<a, b>>, <<b, a>>} \subseteq PathEdges(last.registered))
  => (last.thrown.kind = "circular" /\ last.manifests = <<>>)

\* the index of the first resource of the list whose validate() returns a
\* problem, 0 when there is none
FirstInvalid(resources) ==
  IF \E i \in DOMAIN resources : Validate(resources[i]) # <<>>
  THEN CHOOSE i \in DOMAIN resources :
         /\ Validate(resources[i]) # <<>>
         /\ \A j \in 1..(i - 1) : Validate(resources[j]) = <<>>
  ELSE 0

\* C8: synthesis validation is fail-fast: the synthesis takes every resource
\* of the tree, in order; at the first resource whose validate() returns a
\* problem it throws the error naming that resource's path and all of its
\* problem messages, no later resource is validated or turned into a
\* document, and no document is returned.
C8_ValidationFailsFast ==
  Synthesised =>
    /\ Range(last.order) = Range(ResourcesUnder(last.root))
    /\ LET k == FirstInvalid(last.order)
       IN IF k = 0 THEN last.thrown = NoError
          ELSE /\ last.thrown = ValidationFailed(Path(last.order[k]),
                                                 Validate(last.order[k]))
               /\ last.validated = SubSeq(last.order, 1, k)
               /\ last.manifests = <<>>

\* the synthesis of three resources threw at the second one, which has more
\* than one problem, after validating the first and without validating the
\* third
C8_Witness ==
  /\ Synthesised
  /\ Len(last.order) = 3
  /\ FirstInvalid(last.order) = 2
  /\ last.thrown.kind = "validation"
  /\ Len(last.thrown.messages) >= 2
  /\ Len(last.validated) = 2

\* C9: a successful Stack.synthesize or visitConstruct returns exactly one
\* document for every resource of the subtree and none for a construct that
\* is no resource: as many documents as resources, each resource's path on
\* exactly one document, which has the resource's kind and name.
C9_OneDocumentPerResource ==
  (Synthesised /\ last.thrown = NoError) =>
    LET resources == ResourcesUnder(last.root)
    IN /\ Len(last.manifests) = Len(resources)
       /\ \A i \in DOMAIN resources :
            \E j \in DOMAIN last.manifests :
              /\ ConstructPathOf(last.manifests[j]) = Path(resources[i])
              /\ last.manifests[j].kind = nodes[resources[i]].type
              /\ last.manifests[j].name = nodes[resources[i]].name
              /\ \A k \in DOMAIN last.manifests :
                   ConstructPathOf(last.manifests[k]) = Path(resources[i]) => k = j

\* Stack.synthesize returned three documents, one ConfigMap, one Deployment
\* and one Service, for a stack in which a resource lies under another one
C9_Witness ==
  /\ last.op = "synthesize"
  /\ last.thrown = NoError
  /\ Len(last.manifests) = 3
  /\ {last.manifests[i].kind : i \in DOMAIN last.manifests}
       = {"ConfigMap", "Deployment", "Service"}
  /\ \E n \in Resources : nodes[n].scope \in Resources

\* C10: after construction, any two sibling resources under the same owner
\* have different generated resource names.
C10_SiblingNamesDiffer ==
  \A m, n \in Resources :
    (/\ m # n
     /\ nodes[m].scope = nodes[n].scope
     /\ nodes[m].name = GenerateResourceName(m)
     /\ nodes[n].name = GenerateResourceName(n))
    => nodes[m].name # nodes[n].name

----------------------------------------------------------------------------
(* Claims about the registry. *)

\* the registry's edges as triples <<dependent path, dependency path, type>>
TypedEdges(d) ==
  UNION {{<<Path(d[p][i].dependent), Path(d[p][i].dependency), d[p][i].type>>
            : i \in DOMAIN d[p]} : p \in DOMAIN d}

\* the children of n that are ConfigMaps, or ConfigMaps with the given id
ConfigMapChildren(n) == {c \in NodeIds : nodes[c].scope = n /\ nodes[c].type = "ConfigMap"}
SharedConfigChildren(n) == {c \in ConfigMapChildren(n) : nodes[c].id = SharedConfigId}
ChildrenOfType(n, type) == {c \in NodeIds : nodes[c].scope = n /\ nodes[c].type = type}

\* the earliest created construct of a non-empty set
First(S) == CHOOSE c \in S : \A other \in S : c <= other

\* the edges of the pattern table for the constructs passed in: a WebService
\* depends on its first ConfigMap child (configuration); the first WebService
\* child of a Microservice depends on its first Database child (network) and
\* on its first ConfigMap child named shared-config (configuration)
PatternEdges(constructs) ==
  LET webServices == {c \in Range(constructs) : nodes[c].type = "WebService"}
      microservices == {c \in Range(constructs) : nodes[c].type = "Microservice"}
  IN {<<Path(c), Path(First(ConfigMapChildren(c))), "configuration">>
        : c \in {x \in webServices : ConfigMapChildren(x) # {}}}
     \cup {<<Path(First(ChildrenOfType(c, "WebService"))),
             Path(First(ChildrenOfType(c, "Database"))), "network">>
             : c \in {x \in microservices :
                        /\ ChildrenOfType(x, "WebService") # {}
                        /\ ChildrenOfType(x, "Database") # {}}}
     \cup {<<Path(First(ChildrenOfType(c, "WebService"))),
             Path(First(SharedConfigChildren(c))), "configuration">>
             : c \in {x \in microservices :
                        /\ ChildrenOfType(x, "WebService") # {}
                        /\ SharedConfigChildren(x) # {}}}

\* C6: autoDetectDependencies(nodes) empties the registry first: when it
\* returns, the registry holds exactly the edges of the pattern table for the
\* nodes passed in, each once and under its dependent's path, and no edge
\* that was there before remains unless the pattern table produces it.
C6_AutoDetectReplacesRegistry ==
  last.op = "autoDetectDependencies" =>
    /\ TypedEdges(deps) = PatternEdges(last.input)
    /\ EdgeCount(deps) = Cardinality(PatternEdges(last.input))
    /\ \A p \in DOMAIN deps : \A i \in DOMAIN deps[p] : Path(deps[p][i].dependent) = p

\* autoDetectDependencies found the registry holding an edge added with
\* addDependency and an edge registered by a constructor, neither of them a
\* pattern edge, and left exactly the pattern edges, of which there is one
C6_Witness ==
  /\ last.op = "autoDetectDependencies"
  /\ \E e \in TypedEdges(last.before) \ PatternEdges(last.input) : e[3] = "custom"
  /\ \E e \in TypedEdges(last.before) \ PatternEdges(last.input) :
       e[3] = "runtime-reference"
  /\ PatternEdges(last.input) # {}
  /\ TypedEdges(deps) = PatternEdges(last.input)

\* the edge list of the dependent holds an edge to the dependency's path
\* with this type
HoldsEdge(d, dependent, dependency, type) ==
  /\ Path(dependent) \in DOMAIN d
  /\ \E i \in DOMAIN d[Path(dependent)] :
       /\ Path(d[Path(dependent)][i].dependency) = Path(dependency)
       /\ d[Path(dependent)][i].type = type

\* C7: addDependency is idempotent: after any sequence of addDependency
\* calls the edge list of each dependent holds at most one edge per pair of
\* dependency path and type, and a call that repeats the dependent, the
\* dependency and the type of an edge the registry holds leaves the registry
\* unchanged.
C7_AddDependencyIdempotent ==
  /\ \A p \in DOMAIN deps : \A i, j \in DOMAIN deps[p] :
       (/\ Path(deps[p][i].dependency) = Path(deps[p][j].dependency)
        /\ deps[p][i].type = deps[p][j].type) => i = j
  /\ (/\ last.op = "addDependency"
      /\ HoldsEdge(last.before, last.dependent, last.dependency, last.type))
     => deps = last.before

\* addDependency was repeated for an edge of a list that also holds an edge
\* to the same dependency with another type, and changed nothing
C7_Witness ==
  /\ last.op = "addDependency"
  /\ HoldsEdge(last.before, last.dependent, last.dependency, last.type)
  /\ \E type \in RegistryTypes \ {last.type} :
       HoldsEdge(last.before, last.dependent, last.dependency, type)
  /\ deps = last.before

----------------------------------------------------------------------------
(* Claims about naming. *)

\* the characters a..z, 0..9
IsLowerAlphanumeric(c) == IsLower(c) \/ IsDigit(c)

\* two adjacent hyphens somewhere in the string
HasDoubleHyphen(str) ==
  \E i \in 1..(Len(str) - 1) : str[i] = "-" /\ str[i + 1] = "-"

\* a non-empty string of at most 63 characters, all of them in a..z, 0..9 or
\* the hyphen, that neither starts nor ends with a hyphen
IsDnsLabel(name) ==
  /\ Len(name) >= 1
  /\ Len(name) <= 63
  /\ \A i \in DOMAIN name : IsLowerAlphanumeric(name[i]) \/ name[i] = "-"
  /\ IsLowerAlphanumeric(name[1])
  /\ IsLowerAlphanumeric(name[Len(name)])

\* C11: for every node and the default naming options, generateResourceName
\* returns a non-empty string of at most 63 characters that matches
\* ^[a-z0-9]([-a-z0-9]*[a-z0-9])?$ (so it neither starts nor ends with a
\* hyphen), whatever characters and length the ids on the node's path have.
C11_GeneratedNameIsDnsName ==
  \A n \in NodeIds : IsDnsLabel(GenerateResourceName(n))

\* a node whose path is longer than 63 characters and holds capitals and
\* underscores got a name of exactly 63 characters, cut where the base name
\* has a hyphen
C11_Witness ==
  \E n \in NodeIds :
    /\ Len(Path(n)) > 63
    /\ \E i \in DOMAIN Path(n) : Path(n)[i] = "_"
    /\ Len(GenerateResourceName(n)) = 63
    /\ HasDoubleHyphen(GenerateResourceName(n))

\* C25: generateResourceName respects the option maxLength: for any
\* maxLength given, the name returned is no longer than maxLength, with or
\* without the hash.
C25_NameWithinMaxLength ==
  last.op = "generateResourceName" => Len(last.name) <= last.maxLength

----------------------------------------------------------------------------
(* Claims about metadata. *)

\* the last operation was a synthesis that returned its documents; document
\* i is that of the resource last.order[i]
SynthesisReturned == Synthesised /\ last.thrown = NoError

\* the automatic labels of a construct, those of its stack apart
AutomaticLabels(n) ==
  ("app.kubernetes.io/name" :> nodes[n].id)
    @@ ("app.kubernetes.io/managed-by" :> Konverge)
    @@ ("konverge.io/construct-id" :> ConstructIdLabel(SanitizeLabelValue(Path(n))))
    @@ (IF FindParentStack(n) = 0 THEN NoEntries
        ELSE "konverge.io/stack-name" :> nodes[FindParentStack(n)].id)

\* the labels of the stack a construct is within
StackLabelsOf(n) ==
  IF FindParentStack(n) = 0 THEN NoEntries ELSE nodes[FindParentStack(n)].parts.labels

\* the namespace of the stack a construct is within, empty if there is none
StackNamespaceOf(n) ==
  IF FindParentStack(n) = 0 THEN <<>> ELSE nodes[FindParentStack(n)].parts.namespace

\* every key of the labels has the value of the highest layer that defines
\* it, in the order automatic < stack < additional < own
ByPrecedence(labels, automatic, stack, additional, own) ==
  /\ DOMAIN labels = DOMAIN automatic \cup DOMAIN stack \cup DOMAIN additional
                       \cup DOMAIN own
  /\ \A key \in DOMAIN labels :
       labels[key] = IF key \in DOMAIN own THEN own[key]
                     ELSE IF key \in DOMAIN additional THEN additional[key]
                     ELSE IF key \in DOMAIN stack THEN stack[key]
                     ELSE automatic[key]

C13_ExplicitNamespaceKept ==
  /\ \A n \in Resources :
       nodes[n].parts.metadata.namespace =
         IF nodes[n].parts.given.namespace # <<>>
         THEN nodes[n].parts.given.namespace
         ELSE StackNamespaceOf(n)
  /\ last.op = "propagateMetadata" =>
       IF last.baseMetadata.namespace # <<>>
       THEN last.metadata.namespace = last.baseMetadata.namespace
       ELSE last.metadata.namespace \in {<<>>, StackNamespaceOf(last.construct)}
  /\ SynthesisReturned =>
       \A i \in DOMAIN last.manifests :
         last.manifests[i].namespace =
           IF nodes[last.order[i]].parts.given.namespace # <<>>
           THEN nodes[last.order[i]].parts.given.namespace
           ELSE StackNamespaceOf(last.order[i])

\* Stack.synthesize of a stack with the namespace ns-a returned the document
\* of a resource set to ns-b, with ns-b, and that of a resource without
\* namespace, with ns-a
C13_Witness ==
  /\ last.op = "synthesize"
  /\ last.thrown = NoError
  /\ nodes[last.root].parts.namespace = NamespaceA
  /\ \E i, j \in DOMAIN last.manifests :
       /\ nodes[last.order[i]].parts.given.namespace = NamespaceB
       /\ last.manifests[i].namespace = NamespaceB
       /\ nodes[last.order[j]].parts.given.namespace = <<>>
       /\ last.manifests[j].namespace = NamespaceA

\* the two annotations of the synthesis
SynthesisKeys == {"konverge.io/synthesized-at", "konverge.io/construct-path"}

\* the annotations of a returned document, against those of the resource's
\* own document: the two keys of the synthesis are set, every other
\* annotation is unchanged, and visitConstruct adds no other key
AnnotationsProcessed(op, annotations, own, n) ==
  /\ SynthesisKeys \subseteq DOMAIN annotations
  /\ annotations["konverge.io/construct-path"] = Path(n)
  /\ annotations["konverge.io/synthesized-at"] = SynthesizedAt
  /\ \A key \in DOMAIN own \ SynthesisKeys :
       key \in DOMAIN annotations /\ annotations[key] = own[key]
  /\ op = "visitConstruct" => DOMAIN annotations = DOMAIN own \cup SynthesisKeys
  /\ \A key \in DOMAIN nodes[n].parts.given.annotations \ SynthesisKeys :
       annotations[key] = nodes[n].parts.given.annotations[key]

\* C14: every document returned by generateManifest carries the annotations
\* konverge.io/synthesized-at and konverge.io/construct-path, the latter
\* equal to the path of the resource; the two keys overwrite whatever the
\* resource's own document had under them, and every other annotation of
\* the document is left unchanged.
C14_SynthesisAnnotations ==
  SynthesisReturned =>
    \A i \in DOMAIN last.manifests :
      AnnotationsProcessed(last.op, last.manifests[i].annotations,
                           ToManifest(last.order[i]).annotations, last.order[i])

\* visitConstruct returned the document of a resource whose own document
\* had other values under the two keys and an annotation note: the two
\* values are replaced, the note is kept
C14_Witness ==
  /\ last.op = "visitConstruct"
  /\ last.thrown = NoError
  /\ \E i \in DOMAIN last.manifests :
       /\ ToManifest(last.order[i]).annotations["konverge.io/construct-path"] = Other
       /\ ToManifest(last.order[i]).annotations["konverge.io/synthesized-at"] = Other
       /\ last.manifests[i].annotations["konverge.io/construct-path"]
            = Path(last.order[i])
       /\ last.manifests[i].annotations["konverge.io/synthesized-at"] = SynthesizedAt
       /\ last.manifests[i].annotations["note"] = Other

\* a label of the result has the key and the value of a label of the stack
\* that neither the additional labels, nor the labels of the base metadata,
\* nor the labels generated from the construct's own id and path supply
FromStackOnly(key) ==
  /\ key \in DOMAIN last.metadata.labels
  /\ last.metadata.labels[key] = StackLabelsOf(last.construct)[key]
  /\ ~(/\ key \in DOMAIN last.options.additionalLabels
        /\ last.options.additionalLabels[key] = last.metadata.labels[key])
  /\ ~(/\ key \in DOMAIN last.baseMetadata.labels
        /\ last.baseMetadata.labels[key] = last.metadata.labels[key])
  /\ ~(/\ key \in DOMAIN AutomaticLabels(last.construct)
        /\ AutomaticLabels(last.construct)[key] = last.metadata.labels[key])

\* C30: with inheritLabels = false, propagateMetadata puts none of the labels
\* of the enclosing stack into the resulting labels (unless the same key and
\* value are supplied through the additional or the base labels) and reports
\* inheritedLabelsCount = 0.
C30_NoStackLabelsUninherited ==
  (last.op = "propagateMetadata" /\ ~last.options.inheritLabels) =>
    /\ last.inheritedLabelsCount = 0
    /\ \A key \in DOMAIN StackLabelsOf(last.construct) : ~FromStackOnly(key)

----------------------------------------------------------------------------
(* Claims about the order of documents. *)

\* one list holds every document as often as the other
IsPermutation(a, b) ==
  /\ Len(a) = Len(b)
  /\ \A m \in Range(a) \cup Range(b) :
       Cardinality({i \in DOMAIN a : a[i] = m})
         = Cardinality({i \in DOMAIN b : b[i] = m})

\* a is before b, or equal to it, in the lexicographic order of the
\* character codes
RECURSIVE LexLeqFrom(_, _, _)
LexLeqFrom(a, b, i) ==
  IF i > Len(a) THEN TRUE
  ELSE IF i > Len(b) THEN FALSE
  ELSE IF CharCode(a[i]) # CharCode(b[i]) THEN CharCode(a[i]) < CharCode(b[i])
  ELSE LexLeqFrom(a, b, i + 1)

\* the priority of a kind by the table of the specification
TablePriority(kind) ==
  IF kind \in DOMAIN ResourcePriority THEN ResourcePriority[kind] ELSE 999

\* C15: orderResources returns a permutation of its input in which the
\* documents are in non-decreasing priority of kind (a kind the table does
\* not list has priority 999 and comes last) and, among documents of equal
\* priority, in lexicographic order of name; the output is a function of
\* the input.
C15_OrderedByKindThenName ==
  last.op = "orderResources" =>
    /\ IsPermutation(last.output, last.input)
    /\ \A i, j \in DOMAIN last.output :
         i < j =>
           /\ TablePriority(last.output[i].kind) <= TablePriority(last.output[j].kind)
           /\ last.output[i].kind \notin DOMAIN ResourcePriority
                => last.output[j].kind \notin DOMAIN ResourcePriority
           /\ TablePriority(last.output[i].kind) = TablePriority(last.output[j].kind)
                => LexLeqFrom(last.output[i].name, last.output[j].name, 1)
    /\ last.output = OrderResources(last.input)
    /\ OrderResources(last.output) = last.output

\* orderResources was given a document of an unlisted kind, then two
\* documents of one kind with the names ab and a-b, and returned them in the
\* opposite order
C15_Witness ==
  /\ last.op = "orderResources"
  /\ Len(last.input) = 3
  /\ last.input[1].kind = "CustomResource"
  /\ last.input[2].kind = "ConfigMap" /\ last.input[2].name = <<"a", "b">>
  /\ last.input[3].kind = "ConfigMap" /\ last.input[3].name = <<"a", "-", "b">>
  /\ last.output = <<last.input[3], last.input[2], last.input[1]>>

----------------------------------------------------------------------------
(* Claims about the tree. *)

\* an owner has a child of this id
OwnsChildWithId(owner, id) ==
  \E c \in NodeIds : nodes[c].scope = owner /\ nodes[c].id = id

\* no owner has two children with the same id
SiblingIdsDiffer ==
  \A c, d \in NodeIds :
    (c # d /\ nodes[c].scope # 0 /\ nodes[c].scope = nodes[d].scope)
      => nodes[c].id # nodes[d].id

\* a construction under an owner returned only if the owner had no child of
\* the id, and then added the node; it failed only with the duplicate-id
\* error of an owner that has a child of the id, and then left the tree as
\* it was
ConstructionChecked ==
  last'.op = "new" =>
    IF last'.thrown = NoError
    THEN /\ Len(nodes') = Len(nodes) + 1
         /\ SubSeq(nodes', 1, Len(nodes)) = nodes
         /\ nodes'[Len(nodes')].scope # 0 =>
              ~OwnsChildWithId(nodes'[Len(nodes')].scope, nodes'[Len(nodes')].id)
    ELSE /\ nodes' = nodes
         /\ last'.thrown.kind = "duplicate"
         /\ \E owner \in NodeIds :
              /\ Path(owner) = last'.thrown.owner
              /\ OwnsChildWithId(owner, last'.thrown.id)

\* C16: constructing a node under an owner that already has a child with
\* the same id fails with the duplicate-id error, and after any sequence of
\* constructions, failed ones included, no owner has two children with the
\* same id.
C16_DuplicateIdRejected == []SiblingIdsDiffer /\ [][ConstructionChecked]_vars

\* a construction has failed with the duplicate-id error under an owner
\* that has a child of the id and a child of another id
C16_Witness ==
  /\ last.op = "new"
  /\ last.thrown # NoError
  /\ \E owner \in NodeIds :
       /\ last.thrown = DuplicateId(owner, <<"a">>)
       /\ OwnsChildWithId(owner, <<"a">>)
       /\ OwnsChildWithId(owner, <<"b">>)

\* C17: path uniqueness: at any time no two distinct nodes have the same
\* path, so that a path used as a key of the dependency registry identifies
\* exactly one node.
C17_PathsUnique ==
  \A n, m \in NodeIds : n # m => Path(n) # Path(m)

RECURSIVE ChainFrom(_, _)
\* the constructs from the owner down to n, n being the owner or below it
ChainFrom(owner, n) ==
  IF n = owner THEN <<owner>> ELSE Append(ChainFrom(owner, nodes[n].scope), n)

\* the chain a is a proper prefix of the chain b, or at the first place
\* where they differ a holds the child that was added first
ChainBefore(a, b) ==
  \/ Len(a) < Len(b) /\ SubSeq(b, 1, Len(a)) = a
  \/ \E i \in DOMAIN a \cap DOMAIN b :
       /\ SubSeq(a, 1, i - 1) = SubSeq(b, 1, i - 1)
       /\ IndexOf(Children(nodes[a[i]].scope), a[i])
            < IndexOf(Children(nodes[b[i]].scope), b[i])

\* a result of findAll: the matching constructs of the subtree, each once,
\* an owner before what is below it and the subtrees of the children in the
\* order of the children
IsPreOrderOfMatching(result, owner, predicate) ==
  /\ Range(result) = {n \in NodeIds : IsWithin(owner, n) /\ Matches(predicate, n)}
  /\ \A i, j \in DOMAIN result :
       i < j => ChainBefore(ChainFrom(owner, result[i]), ChainFrom(owner, result[j]))

\* a call of findAll that follows a call with the same owner and predicate,
\* the tree unchanged, returns the same sequence
FindAllRepeats ==
  (/\ last.op = "findAll"
   /\ last'.op = "findAll"
   /\ last'.construct = last.construct
   /\ last'.predicate = last.predicate
   /\ nodes' = nodes) => last'.result = last.result

\* C24: findAll() returns every node of the subtree exactly once in
\* depth-first pre-order (the owner first, then the subtree of each child in
\* the order of the children); with a predicate it returns exactly the
\* matching nodes in that same order, still descending below nodes that do
\* not match; repeated calls on an unchanged tree return the same sequence.
C24_FindAllPreOrder ==
  /\ [](last.op = "findAll" =>
          IsPreOrderOfMatching(last.result, last.construct, last.predicate))
  /\ [][FindAllRepeats]_vars

\* findAll with a predicate returned two constructs that lie below a
\* construct that does not match, in different subtrees
C24_Witness ==
  /\ last.op = "findAll"
  /\ last.predicate = IdIs(<<"a">>)
  /\ nodes[last.construct].id # <<"a">>
  /\ Len(last.result) = 2
  /\ nodes[last.result[1]].scope # last.construct
  /\ nodes[last.result[2]].scope = last.construct

----------------------------------------------------------------------------
(* Claims about the dependency graph. *)

\* the pairs <<from, to>> of the edges of a graph
GraphEdgePairs(g) ==
  UNION {{<<from, g.edges[from][i]>> : i \in DOMAIN g.edges[from]}
           : from \in DOMAIN g.edges}

\* the ids added with addNode
AddedIds(g) == {g.nodes[i].id : i \in DOMAIN g.nodes}

\* the place of the manifest of a node in a list of manifests, 0 if absent
PlaceOf(result, g, id) == IndexOf(result, GraphManifest(g, id)[1])

\* a list returned by topologicalSort: the manifest of every added node once
\* and nothing else, and from before to for every edge between added nodes
SortedGraph(result, g) ==
  /\ Len(result) = Len(g.nodes)
  /\ \A id \in AddedIds(g) : PlaceOf(result, g, id) >= 1
  /\ \A e \in GraphEdgePairs(g) :
       (e[1] \in AddedIds(g) /\ e[2] \in AddedIds(g))
         => PlaceOf(result, g, e[1]) < PlaceOf(result, g, e[2])

\* the edges contain a cycle
HasGraphCycle(g) == \E e \in GraphEdgePairs(g) : OnCycle(GraphEdgePairs(g), e[1])

\* the edges contain a cycle that is reached from an added node
HasReachedCycle(g) ==
  \E id \in ReachFrom(GraphEdgePairs(g), AddedIds(g)) :
    OnCycle(GraphEdgePairs(g), id)

\* C27, as stated: topologicalSort returns every node added with addNode
\* exactly once and, for every edge added with addEdge(from, to) between two
\* such nodes, places from before to; if the edges contain a cycle it throws
\* instead of returning a list.
C27_SortsOrThrowsOnAnyCycle ==
  last.op = "topologicalSort" =>
    /\ last.thrown = NoError => SortedGraph(last.result, graph)
    /\ HasGraphCycle(graph) => last.thrown # NoError

\* C27, amended: topologicalSort returns every node added with addNode
\* exactly once and, for every edge between two such nodes, places from
\* before to; if the edges that are reached from an added node contain a
\* cycle it throws instead of returning a list.
C27_SortsOrThrowsOnReachedCycle ==
  last.op = "topologicalSort" =>
    /\ last.thrown = NoError => SortedGraph(last.result, graph)
    /\ HasReachedCycle(graph) => last.thrown # NoError

\* topologicalSort returned three manifests along two edges, the node added
\* last first and the node added first last
C27_Witness ==
  /\ last.op = "topologicalSort"
  /\ last.thrown = NoError
  /\ Len(last.result) = 3
  /\ last.result[1] = graph.nodes[3].manifest
  /\ last.result[3] = graph.nodes[1].manifest
  /\ Cardinality(GraphEdgePairs(graph)) = 2

----------------------------------------------------------------------------
(* Claims about the list of rules. *)

\* the ids of a list of rules, in order
RuleIdsOf(list) == [i \in DOMAIN list |-> list[i].id]

\* no two places of the list hold rules of one id
OneRulePerId(list) ==
  \A i, j \in DOMAIN list : list[i].id = list[j].id => i = j

\* registerRule has left the rule where a rule of its id was, or at the end
\* if there was none, and every other place as it was
RegisteredInPlace ==
  last.op = "registerRule" =>
    IF \E i \in DOMAIN last.before : last.before[i].id = last.rule.id
    THEN /\ Len(rules) = Len(last.before)
         /\ \A i \in DOMAIN rules :
              rules[i] = IF last.before[i].id = last.rule.id THEN last.rule
                         ELSE last.before[i]
    ELSE rules = last.before \o <<last.rule>>

\* unregisterRule has removed the rule of that id and left all others
UnregisteredOnlyThat ==
  last.op = "unregisterRule" =>
    rules = SelectSeq(last.before, LAMBDA r : r.id # last.ruleId)

\* C26: after any sequence of registerRule and unregisterRule calls the list
\* of rules holds at most one rule per id: registering a rule whose id is
\* present replaces that rule in place and keeps the length of the list, and
\* unregisterRule removes the rule of that id and leaves all others.
C26_OneRulePerId ==
  OneRulePerId(rules) /\ RegisteredInPlace /\ UnregisteredOnlyThat

\* a rule was registered under an id that was present, at a place before the
\* end of a list of four rules
C26_Witness ==
  /\ last.op = "registerRule"
  /\ Len(last.before) = 4
  /\ \E i \in 1..3 : /\ last.before[i].id = last.rule.id
                     /\ last.before[i] # last.rule
                     /\ rules[i] = last.rule

----------------------------------------------------------------------------
(* Claims about the validation of constructs. *)

\* the rule throws when it is applied to some construct
Throws(rule) == \E m \in NodeIds : RuleOutcome(rule, m).thrown

\* the constructs validateConstruct(n, options) is to validate
ToValidate(n, options) ==
  IF options.recursive THEN {m \in NodeIds : IsWithin(n, m)} ELSE {n}

\* the problems RULE_EXECUTION_FAILED of a result for a rule id and a construct
FailuresOf(errors, ruleId, m) ==
  SelectSeq(errors, LAMBDA e : /\ e.code = "RULE_EXECUTION_FAILED"
                               /\ e.rule = ruleId
                               /\ e.path = ConstructPath(m))

\* every application of a rule that throws has left one problem
\* RULE_EXECUTION_FAILED for the rule and the construct
FailuresRecorded(errors, n, options) ==
  \A m \in ToValidate(n, options), rule \in Range(RulesToApply(rules, options)) :
    Len(FailuresOf(errors, rule.id, m)) =
      IF RuleOutcome(rule, m).thrown
      THEN Len(SelectSeq(RulesToApply(rules, options), LAMBDA r : r.id = rule.id))
      ELSE 0

\* the other problems are those of the validation without the rules that
\* throw
OthersAsWithoutThrowing(errors, n, options) ==
  SelectSeq(errors, LAMBDA e : e.code # "RULE_EXECUTION_FAILED")
    = ValidateConstruct(SelectSeq(rules, LAMBDA r : ~Throws(r)), n,
        [options EXCEPT !.customRules = SelectSeq(@, LAMBDA r : ~Throws(r))]).errors

C22_AtMostMaxErrors ==
  (last.op = "validateConstruct" /\ last.options.maxErrors > 0) =>
    Len(last.result.errors) <= last.options.maxErrors

\* the errors among the problems
ErrorsAmong(errors) == SelectSeq(errors, LAMBDA e : e.severity = "error")

\* C23: a validation result holds every problem of severity error, warnings
\* only when includeWarnings is true and info problems only when includeInfo
\* is true, for validateConstruct and for validateKubernetesResource alike.
C23_SeverityFiltered ==
  last.op \in {"validateConstruct", "validateKubernetesResource"} =>
    /\ \A i \in DOMAIN last.result.errors :
         /\ last.result.errors[i].severity = "warning" => last.options.includeWarnings
         /\ last.result.errors[i].severity = "info" => last.options.includeInfo
    /\ last.op = "validateConstruct" =>
         ErrorsAmong(last.result.errors)
           = ErrorsAmong(CollectErrors(rules, last.construct, last.options))

----------------------------------------------------------------------------
(* Claims about name collisions. *)

\* the counters, of those tried, whose candidate no sibling of the
\* construct has as its generated name
FreeCounters(n, baseName, taken) ==
  {counter \in 1..1000 :
     nodes[n].scope = 0 \/ (baseName \o <<"-">> \o Decimal(counter)) \notin taken}

\* the outcome of resolveNameCollision against the free counters: the
\* candidate of the least one, the error if there is none
ResolvedToFirstFree(outcome, baseName, free) ==
  IF free = {}
  THEN outcome.thrown.kind = "unresolved"
  ELSE /\ outcome.thrown = NoError
       /\ \E counter \in free :
            /\ \A other \in free : counter <= other
            /\ outcome.name = baseName \o <<"-">> \o Decimal(counter)

\* C18: resolveNameCollision(node, base) tries base-1, base-2, ... in
\* increasing order and returns the first candidate that is the generated
\* name of no sibling of the node; it always ends, with an error once the
\* 1000 candidates base-1 .. base-1000 have all collided.
C18_FirstFreeCandidate ==
  last.op = "resolveNameCollision" =>
    ResolvedToFirstFree(
      last, last.baseName,
      FreeCounters(last.construct, last.baseName,
                   {GenerateResourceName(sibling) :
                      sibling \in {c \in NodeIds :
                                     /\ c # last.construct
                                     /\ nodes[c].scope = nodes[last.construct].scope}}))

\* resolveNameCollision has failed for a child of a root whose thousand
\* other children have the names r-x-1 .. r-x-1000
C18_Witness ==
  /\ last.op = "resolveNameCollision"
  /\ last.thrown = Unresolved(Path(last.construct))
  /\ last.baseName = <<"r", "-", "x">>
  /\ Len(nodes) > 1000

----------------------------------------------------------------------------
(* Claims about schema validation. *)

\* the API version and the kind of a document, empty where it has none
DocumentApiVersion(manifest) ==
  IF HasProperty(manifest.entries, "apiVersion")
  THEN Property(manifest.entries, "apiVersion").chars ELSE <<>>
DocumentKind(manifest) ==
  IF HasProperty(manifest.entries, "kind")
  THEN Property(manifest.entries, "kind").chars ELSE <<>>

\* a schema is registered for the API version and the kind of a document
HasRegisteredSchema(manifest) ==
  \E key \in DOMAIN schemas :
    /\ SchemaNamed(schemas[key]).apiVersion = DocumentApiVersion(manifest)
    /\ SchemaNamed(schemas[key]).kind = DocumentKind(manifest)

\* C19: a document whose API version and kind have no registered schema,
\* and so any document validated after clearSchemas, is valid with zero
\* problems.
C19_NoSchemaPasses ==
  /\ last.op = "clearSchemas" => DOMAIN schemas = {}
  /\ (last.op = "validateManifest" /\ ~HasRegisteredSchema(last.manifest)) =>
       (last.result.isValid /\ last.result.errors = <<>>)

\* after clearSchemas, a ConfigMap without metadata has been validated and
\* found valid, with zero problems
C19_Witness ==
  /\ last.op = "validateManifest"
  /\ schemas = NoSchemas
  /\ last.manifest = ConfigMapWithoutMetadata
  /\ last.result = [isValid |-> TRUE, errors |-> <<>>]

RECURSIVE WithoutUnknown(_, _)
\* the declared properties of an object, each without its own unknown
\* properties
DeclaredEntries(declared, kept) ==
  [i \in DOMAIN kept |->
     Entry(kept[i].name, WithoutUnknown(kept[i].value, Property(declared, kept[i].name)))]

\* a value without the properties its schema does not declare
WithoutUnknown(value, schema) ==
  IF value.type = "object" /\ schema.type = "object" /\ "properties" \in DOMAIN schema
  THEN Obj(DeclaredEntries(schema.properties,
                           SelectSeq(value.entries,
                                     LAMBDA e : HasProperty(schema.properties, e.name))))
  ELSE IF value.type = "array" /\ schema.type = "array" /\ "items" \in DOMAIN schema
       THEN Arr([i \in DOMAIN value.items |-> WithoutUnknown(value.items[i], schema.items)])
       ELSE value

\* a result against that of the document without its unknown properties:
\* an unknown property is a warning, and where the rest of the document has
\* no problem the result is valid and holds nothing but these warnings
OnlyWarned(result, rest) ==
  /\ \A i \in DOMAIN result.errors :
       result.errors[i].code = "UNKNOWN_PROPERTY"
         => result.errors[i].severity = "warning"
  /\ rest.errors = <<>> =>
       /\ result.isValid
       /\ \A i \in DOMAIN result.errors :
            /\ result.errors[i].severity # "error"
            /\ result.errors[i].code = "UNKNOWN_PROPERTY"

\* C20: properties that the schema does not declare are reported only as
\* warnings: a document whose only deviations from its registered schema are
\* unknown properties is valid and has no problem of severity error.
C20_UnknownPropertiesWarn ==
  (last.op = "validateManifest" /\ HasRegisteredSchema(last.manifest)) =>
    OnlyWarned(
      last.result,
      ValidateAgainst(
        WithoutUnknown(last.manifest,
                       SchemaNamed(schemas[<<DocumentApiVersion(last.manifest),
                                             DocumentKind(last.manifest)>>]).schema),
        SchemaNamed(schemas[<<DocumentApiVersion(last.manifest), DocumentKind(last.manifest)>>]),
        ManifestPath))

\* a service with an unknown property in an item of its ports has been
\* validated against the schema of services: it is valid, with one warning
C20_Witness ==
  /\ last.op = "validateManifest"
  /\ last.manifest = ServiceWithUnknown
  /\ HasRegisteredSchema(last.manifest)
  /\ last.result.isValid
  /\ Len(last.result.errors) = 1
  /\ last.result.errors[1].code = "UNKNOWN_PROPERTY"
  /\ last.result.errors[1].severity = "warning"

====
